---- MODULE Spec2Model ----
(***************************************************************************)
(* State-machine model of the real-time transport and delivery layer of    *)
(* the speech translation front end:                                       *)
(*   - AudioQueue        (frontend/src/utils/AudioQueue.js)                *)
(*   - SessionWebSocket  (frontend/src/pages/SenderSession.jsx, 1369-1477) *)
(*   - FileUpload        (frontend/src/components/ProgressBar.jsx, 57-238) *)
(*   - LiveRecording     (frontend/src/components/LiveRecording.jsx, 5-306)*)
(*   - ReceiverSession   (frontend/src/pages/SenderSession.jsx, 588-800)   *)
(*   - SenderSession     (frontend/src/pages/SenderSession.jsx, 6-270)     *)
(* Each component has its own next-state relation and specification; the   *)
(* variables of the other components stay at their initial values.         *)
(***************************************************************************)
EXTENDS Integers, Sequences, FiniteSets, TLC

(***************************************************************************)
(* Bounds of the model.                                                    *)
(***************************************************************************)
\* number of init()/enqueue() invocations made on one AudioQueue
MaxCalls == 3
\* longest decoded segment, in device-clock units (one unit = 0.5 s)
MaxDur == 2
\* last value of the device clock that is explored
MaxTime == 2
\* number of init()/enqueue() invocations suspended at an await at one time
MaxInFlight == 2
\* number of WebSockets one SessionWebSocket instance creates
MaxSockets == 6
\* number of connect() calls made by the owner of a SessionWebSocket
MaxConnectCalls == 2
\* number of uploads started on one FileUpload component
MaxUploads == 2
\* number of status requests issued by the polling intervals
MaxRequests == 3
\* number of message and error events dispatched on the sockets of one
\* SessionWebSocket
MaxFrames == 2
\* number of handleStart invocations on one LiveRecording component
MaxStarts == 2
\* number of audio chunks a LiveRecording component sends
MaxChunks == 2
\* number of sendAudioFile/requestHistory calls made on one SessionWebSocket
MaxSends == 2
\* number of new_message and history_message events delivered to one
\* ReceiverSession page
MaxDeliveries == 2
\* number of clicks on the Play Translation buttons of a ReceiverSession page
MaxClicks == 1
\* number of handleSendAudio/sendRecording calls on one SenderSession page
MaxAudioSends == 2
\* number of events handed to handleWebSocketMessage of a SenderSession page
MaxSenderEvents == 2

(***************************************************************************)
(* AudioQueue state.                                                       *)
(*   queue, isPlaying, audioContext, currentSource, nextStartTime are the  *)
(*   fields of the class.  currentTime is audioContext.currentTime.        *)
(*   A decoded buffer is [id, duration, pushedAt]: the invocation that     *)
(*   decoded it, its length and the device time of its queue.push.         *)
(*   sources is the list of AudioBufferSourceNodes created by playNext,    *)
(*   calls the set of init()/enqueue() invocations that are suspended at   *)
(*   an await, with the await each one is at, and callsMade the number of  *)
(*   invocations so far (the k-th invocation decodes segment k).           *)
(*   contextsCreated, justCleared (the last step was clear()),             *)
(*   justDropped (the last step was an enqueue() giving up its segment),   *)
(*   clearThrew (the latest clear() ended with an exception) and           *)
(*   enqueueRejected (the promise of the latest enqueue() that gave up its *)
(*   segment was rejected) are history variables.                          *)
(***************************************************************************)
VARIABLES queue, isPlaying, audioContext, currentSource, nextStartTime,
          currentTime, sources, calls, callsMade, contextsCreated, justCleared,
          justDropped, clearThrew, enqueueRejected

aqVars == <<queue, isPlaying, audioContext, currentSource, nextStartTime,
            currentTime, sources, calls, callsMade, contextsCreated, justCleared,
            justDropped, clearThrew, enqueueRejected>>

(***************************************************************************)
(* SessionWebSocket state.                                                 *)
(*   ws, reconnectAttempts are the fields of the class; socks[i] is the    *)
(*   readyState of the i-th WebSocket the instance created (ws is an index *)
(*   into socks, 0 for null); timers is the number of pending setTimeout   *)
(*   reconnect callbacks.  lastSend is the outcome of the latest           *)
(*   sendAudioFile/requestHistory call as its caller sees it.              *)
(*   History variables: connectCalls (connect() calls by the owner),       *)
(*   userDisconnected (disconnect() was called and the owner has not       *)
(*   called connect() since), scheduledSinceOpen (reconnects scheduled     *)
(*   since the last onopen), terminalCount (closes since the last onopen   *)
(*   that scheduled no reconnect), retryEvents and termEvents (the events  *)
(*   handed to onMessage by closes that did, and did not, schedule a       *)
(*   reconnect), inbound (the frames that arrived, in arrival order),      *)
(*   handled (the calls of onMessage made by ws.onmessage and ws.onerror,  *)
(*   in the order they were made), disconnectThrew (the latest             *)
(*   disconnect() call ended with an exception), outbox (the frames        *)
(*   written with ws.send, each with the socket it was written on),        *)
(*   sendsMade (sendAudioFile/requestHistory calls so far).                *)
(***************************************************************************)
VARIABLES ws, socks, reconnectAttempts, timers, lastSend, connectCalls,
          userDisconnected, scheduledSinceOpen, terminalCount,
          retryEvents, termEvents, inbound, handled, disconnectThrew,
          outbox, sendsMade

wsVars == <<ws, socks, reconnectAttempts, timers, lastSend, connectCalls,
            userDisconnected, scheduledSinceOpen, terminalCount,
            retryEvents, termEvents, inbound, handled, disconnectThrew,
            outbox, sendsMade>>

\* the record of the send calls of a SessionWebSocket
wsOut == <<outbox, sendsMade>>

\* the message log of a SessionWebSocket
wsLog == <<inbound, handled>>

(***************************************************************************)
(* FileUpload state.                                                       *)
(*   file, uploading, processing, progress, status, statusMessage, error   *)
(*   and result are the useState cells of the component (result is the     *)
(*   audio id of the finished job, 0 for null).  pollIntervalRef is the    *)
(*   interval id held by the ref (0 for null) and activeIntervals the      *)
(*   intervals not yet cleared; interval k polls job k, the job created by *)
(*   the k-th upload that succeeded.  post is the file of the upload POST  *)
(*   in flight, jobState the state of each job on the server, requests     *)
(*   the status requests in flight, in the order they were issued, with    *)
(*   the response each one carries.                                        *)
(*   History variables: uploadsMade, requestsMade, reports (terminal       *)
(*   outcomes reported per job), lateChange (a response for a job whose    *)
(*   terminal outcome had been reported changed what the component         *)
(*   shows), lateRequest (a status request was issued for such a job),     *)
(*   verdicts (per job, the terminal states the component has reported     *)
(*   for it), repeatedProgress (the progress value that a non-terminal     *)
(*   response of the current upload repeated, -1 when none did),           *)
(*   requestFailures (per job, the status requests that failed).           *)
(***************************************************************************)
VARIABLES file, uploading, processing, progress, status, statusMessage,
          error, result, pollIntervalRef, activeIntervals, post, jobState,
          requests, uploadsMade, requestsMade, reports, lateChange,
          lateRequest, verdicts, repeatedProgress, requestFailures

fuVars == <<file, uploading, processing, progress, status, statusMessage,
            error, result, pollIntervalRef, activeIntervals, post, jobState,
            requests, uploadsMade, requestsMade, reports, lateChange,
            lateRequest, verdicts, repeatedProgress, requestFailures>>

(***************************************************************************)
(* LiveRecording state.                                                    *)
(*   isRecording is the useState cell; websocketRef, mediaRecorderRef and  *)
(*   mediaStreamRef are the refs, as indices (0 for null) into translate,  *)
(*   the WebSockets the component created, and recorders, the              *)
(*   MediaRecorders it created, each on a stream of its own.  A socket is  *)
(*   [state, acked, sent]: its readyState, whether a handshake             *)
(*   acknowledgement (connection_established or configured) has arrived    *)
(*   on it, and the frames sent on it, each with the value of acked at     *)
(*   the time of the send.  A recorder is [state, live, finalChunk]: its   *)
(*   state, whether the tracks of its stream are live, and whether the     *)
(*   dataavailable event that follows stop() is still to come.  starts is  *)
(*   the set of handleStart invocations suspended at an await, startsMade  *)
(*   and chunksSent count invocations and chunks.                          *)
(***************************************************************************)
VARIABLES isRecording, websocketRef, mediaRecorderRef, mediaStreamRef,
          translate, recorders, starts, startsMade, chunksSent

lrVars == <<isRecording, websocketRef, mediaRecorderRef, mediaStreamRef,
            translate, recorders, starts, startsMade, chunksSent>>

(***************************************************************************)
(* ReceiverSession state.                                                  *)
(*   rsMessages, playingMessageId and currentAudio are the useState cells  *)
(*   messages, playingMessageId (0 for null) and currentAudio (the number  *)
(*   of the object URL, 0 for null) of the page.                           *)
(*   History variables: rsEvents (the new_message and history_message      *)
(*   events handed to handleWebSocketMessage, in order), rsPlays (the      *)
(*   play() calls made on the audio element, each with the message and     *)
(*   with the number of the event whose handler made it, 0 for a click on  *)
(*   a Play Translation button), rsClicks (clicks so far).                 *)
(***************************************************************************)
VARIABLES rsMessages, playingMessageId, currentAudio, rsEvents, rsPlays,
          rsClicks

rsVars == <<rsMessages, playingMessageId, currentAudio, rsEvents, rsPlays,
            rsClicks>>

(***************************************************************************)
(* SenderSession state (the sending of audio).                             *)
(*   ssProcessing, ssStatusMessage, ssWsConnected, ssSelectedFile and      *)
(*   ssRecordedBlob are the useState cells processing, statusMessage,      *)
(*   wsConnected, selectedFile and recordedBlob (TRUE when not null) of    *)
(*   the page.  ssReaders is the sequence of FileReader reads in progress, *)
(*   each "file" or "recording"; ssTimers the number of pending 5 s        *)
(*   setTimeout callbacks.                                                 *)
(*   History variables: ssSendsMade (handleSendAudio/sendRecording calls), *)
(*   ssEvents (events handled by handleWebSocketMessage).                  *)
(***************************************************************************)
VARIABLES ssProcessing, ssStatusMessage, ssWsConnected, ssSelectedFile,
          ssRecordedBlob, ssReaders, ssTimers, ssSendsMade, ssEvents

ssVars == <<ssProcessing, ssStatusMessage, ssWsConnected, ssSelectedFile,
            ssRecordedBlob, ssReaders, ssTimers, ssSendsMade, ssEvents>>

\* what an action of one component leaves alone
notAQ == <<wsVars, fuVars, lrVars, rsVars, ssVars>>
notWS == <<aqVars, fuVars, lrVars, rsVars, ssVars>>
notFU == <<aqVars, wsVars, lrVars, rsVars, ssVars>>
notLR == <<aqVars, wsVars, fuVars, rsVars, ssVars>>
notRS == <<aqVars, wsVars, fuVars, lrVars, ssVars>>
notSS == <<aqVars, wsVars, fuVars, lrVars, rsVars>>

Durations == 1..MaxDur

\* what enqueue() can be handed: a Blob, an ArrayBuffer, or anything else
DataKinds == {"Blob", "ArrayBuffer", "Invalid"}

\* Math.max(currentTime, this.nextStartTime)
ScheduleTimeMin(now, next) == IF now < next THEN now ELSE next

ScheduleTime(now, next) == IF now > next THEN now ELSE next

\* the device time at which a source node falls silent
EndTime(s) ==
    IF s.stopped /\ s.stopTime < s.startTime + s.duration
    THEN s.stopTime
    ELSE s.startTime + s.duration

\* the source node is producing sound at device time t
Audible(s, t) == s.startTime <= t /\ t < EndTime(s)

\* the source node has not been stopped and its segment is not yet over
Live(s) == ~s.stopped /\ currentTime < s.startTime + s.duration

AQInit ==
    /\ queue = <<>>
    /\ isPlaying = FALSE
    /\ audioContext = "null"
    /\ currentSource = 0
    /\ nextStartTime = 0
    /\ currentTime = 0
    /\ sources = <<>>
    /\ calls = {}
    /\ callsMade = 0
    /\ contextsCreated = 0
    /\ justCleared = FALSE
    /\ justDropped = FALSE
    /\ clearThrew = FALSE
    /\ enqueueRejected = FALSE

\* playNext() without the reset of nextStartTime in its empty-queue branch
PlayNextKeepsSchedule(q, srcs) ==
    IF Len(q) = 0
    THEN /\ isPlaying' = FALSE
         /\ UNCHANGED nextStartTime
         /\ queue' = q
         /\ sources' = srcs
         /\ UNCHANGED currentSource
    ELSE LET audioBuffer == Head(q)
             startTime == ScheduleTime(currentTime, nextStartTime)
         IN /\ isPlaying' = TRUE
            /\ queue' = Tail(q)
            /\ sources' = Append(srcs,
                   [buffer |-> audioBuffer.id,
                    startTime |-> startTime,
                    duration |-> audioBuffer.duration,
                    pushedAt |-> audioBuffer.pushedAt,
                    stopped |-> FALSE,
                    stopTime |-> 0,
                    ended |-> FALSE])
            /\ nextStartTime' = startTime + audioBuffer.duration
            /\ currentSource' = Len(srcs) + 1

\* playNext(), run on the queue q and the source list srcs
PlayNext(q, srcs) ==
    IF Len(q) = 0
    THEN /\ isPlaying' = FALSE
         /\ nextStartTime' = 0
         /\ queue' = q
         /\ sources' = srcs
         /\ UNCHANGED currentSource
    ELSE LET audioBuffer == Head(q)
             startTime == ScheduleTime(currentTime, nextStartTime)
         IN /\ isPlaying' = TRUE
            /\ queue' = Tail(q)
            /\ sources' = Append(srcs,
                   [buffer |-> audioBuffer.id,
                    startTime |-> startTime,
                    duration |-> audioBuffer.duration,
                    pushedAt |-> audioBuffer.pushedAt,
                    stopped |-> FALSE,
                    stopTime |-> 0,
                    ended |-> FALSE])
            /\ nextStartTime' = startTime + audioBuffer.duration
            /\ currentSource' = Len(srcs) + 1

\* the synchronous part of init() without its test of this.audioContext: a
\* context is created by every call
InitSyncAlways(op, kind) ==
    /\ callsMade < MaxCalls
    /\ Cardinality(calls) < MaxInFlight
    /\ callsMade' = callsMade + 1
    /\ \E st \in {"running", "suspended"} :
          /\ audioContext' = st
          /\ contextsCreated' = contextsCreated + 1
          /\ calls' = calls \cup
                 {[id |-> callsMade + 1, op |-> op, kind |-> kind,
                   pc |-> IF st = "suspended" THEN "resume" ELSE "init"]}

\* the synchronous part of init(): create the context when there is none;
\* a new context is either running or suspended (then resume() is awaited)
InitSync(op, kind) ==
    /\ callsMade < MaxCalls
    /\ Cardinality(calls) < MaxInFlight
    /\ callsMade' = callsMade + 1
    /\ IF audioContext = "null"
       THEN \E st \in {"running", "suspended"} :
               /\ audioContext' = st
               /\ contextsCreated' = contextsCreated + 1
               /\ calls' = calls \cup
                      {[id |-> callsMade + 1, op |-> op, kind |-> kind,
                        pc |-> IF st = "suspended" THEN "resume" ELSE "init"]}
       ELSE /\ calls' = calls \cup
                   {[id |-> callsMade + 1, op |-> op, kind |-> kind, pc |-> "init"]}
            /\ UNCHANGED <<audioContext, contextsCreated>>

\* a call of init() by the owner of the queue
InitCall ==
    /\ InitSync("init", "None")
    /\ justCleared' = FALSE
    /\ justDropped' = FALSE
    /\ UNCHANGED <<clearThrew, enqueueRejected>>
    /\ UNCHANGED notAQ
    /\ UNCHANGED <<queue, isPlaying, currentSource, nextStartTime,
                   currentTime, sources>>

\* a call of enqueue(audioData), up to its first await
Enqueue(kind) ==
    /\ InitSync("enqueue", kind)
    /\ justCleared' = FALSE
    /\ justDropped' = FALSE
    /\ UNCHANGED <<clearThrew, enqueueRejected>>
    /\ UNCHANGED notAQ
    /\ UNCHANGED <<queue, isPlaying, currentSource, nextStartTime,
                   currentTime, sources>>

\* audioContext.resume() resolves for the call that created the context
ResumeDone(c) ==
    /\ c.pc = "resume"
    /\ audioContext' = "running"
    /\ calls' = (calls \ {c}) \cup {[c EXCEPT !.pc = "init"]}
    /\ justCleared' = FALSE
    /\ justDropped' = FALSE
    /\ UNCHANGED <<clearThrew, enqueueRejected>>
    /\ UNCHANGED notAQ
    /\ UNCHANGED <<queue, isPlaying, currentSource, nextStartTime, currentTime,
                   sources, callsMade, contextsCreated>>

\* the continuation after `await this.init()`: init() itself is finished,
\* enqueue goes on to read a Blob, to decode an ArrayBuffer, or logs
\* 'Invalid audio data type' and returns
AfterInit(c) ==
    /\ c.pc = "init"
    /\ calls' = IF c.op = "enqueue" /\ c.kind = "Blob"
                THEN (calls \ {c}) \cup {[c EXCEPT !.pc = "read"]}
                ELSE IF c.op = "enqueue" /\ c.kind = "ArrayBuffer"
                THEN (calls \ {c}) \cup {[c EXCEPT !.pc = "decode"]}
                ELSE calls \ {c}
    /\ justCleared' = FALSE
    /\ IF c.op = "enqueue" /\ c.kind = "Invalid"
       THEN /\ justDropped' = TRUE
            /\ enqueueRejected' = FALSE
       ELSE /\ justDropped' = FALSE
            /\ UNCHANGED enqueueRejected
    /\ UNCHANGED clearThrew
    /\ UNCHANGED notAQ
    /\ UNCHANGED <<queue, isPlaying, audioContext, currentSource, nextStartTime,
                   currentTime, sources, callsMade, contextsCreated>>

\* audioData.arrayBuffer() resolves
ReadDone(c) ==
    /\ c.pc = "read"
    /\ calls' = (calls \ {c}) \cup {[c EXCEPT !.pc = "decode"]}
    /\ justCleared' = FALSE
    /\ justDropped' = FALSE
    /\ UNCHANGED <<clearThrew, enqueueRejected>>
    /\ UNCHANGED notAQ
    /\ UNCHANGED <<queue, isPlaying, audioContext, currentSource, nextStartTime,
                   currentTime, sources, callsMade, contextsCreated>>

\* decodeAudioData resolves with a buffer of duration d: push, and start
\* playback when nothing is playing
DecodeOk(c, d) ==
    /\ c.pc = "decode"
    /\ calls' = calls \ {c}
    /\ LET q == Append(queue, [id |-> c.id, duration |-> d, pushedAt |-> currentTime])
       IN IF ~isPlaying
          THEN PlayNext(q, sources)
          ELSE /\ queue' = q
               /\ UNCHANGED <<isPlaying, nextStartTime, sources, currentSource>>
    /\ justCleared' = FALSE
    /\ justDropped' = FALSE
    /\ UNCHANGED <<clearThrew, enqueueRejected>>
    /\ UNCHANGED notAQ
    /\ UNCHANGED <<audioContext, currentTime, callsMade, contextsCreated>>

\* the catch block of enqueue, had it thrown the error on: the promise of
\* enqueue() is rejected when an error was thrown inside the try block
EnqueueRethrow(thrown) == thrown

\* the catch block of enqueue: it logs the error, so the promise of
\* enqueue() is fulfilled whether or not an error was thrown in the try block
EnqueueCatch(thrown) == FALSE

\* decodeAudioData rejects: the catch block logs and the segment is dropped
DecodeFail(c) ==
    /\ c.pc = "decode"
    /\ calls' = calls \ {c}
    /\ justCleared' = FALSE
    /\ justDropped' = TRUE
    /\ enqueueRejected' = EnqueueCatch(TRUE)
    /\ UNCHANGED clearThrew
    /\ UNCHANGED notAQ
    /\ UNCHANGED <<queue, isPlaying, audioContext, currentSource, nextStartTime,
                   currentTime, sources, callsMade, contextsCreated>>

\* the ended event of source node s, had the node no onended handler
OnEndedNoNext(s) ==
    /\ ~sources[s].ended
    /\ sources[s].stopped \/ currentTime >= sources[s].startTime + sources[s].duration
    /\ sources' = [sources EXCEPT ![s].ended = TRUE]
    /\ justCleared' = FALSE
    /\ justDropped' = FALSE
    /\ UNCHANGED <<clearThrew, enqueueRejected>>
    /\ UNCHANGED notAQ
    /\ UNCHANGED <<queue, isPlaying, currentSource, nextStartTime>>
    /\ UNCHANGED <<audioContext, currentTime, calls, callsMade, contextsCreated>>

\* the ended event of source node s is dispatched: it has played to its end
\* or it has been stopped; the handler runs playNext()
OnEnded(s) ==
    /\ ~sources[s].ended
    /\ sources[s].stopped \/ currentTime >= sources[s].startTime + sources[s].duration
    /\ PlayNext(queue, [sources EXCEPT ![s].ended = TRUE])
    /\ justCleared' = FALSE
    /\ justDropped' = FALSE
    /\ UNCHANGED <<clearThrew, enqueueRejected>>
    /\ UNCHANGED notAQ
    /\ UNCHANGED <<audioContext, currentTime, calls, callsMade, contextsCreated>>

\* whether currentSource.stop() throws for the source node s: never for a
\* node that is playing or scheduled; for a node that was already stopped or
\* has ended, an InvalidStateError in some implementations
StopThrows(s) == IF s.stopped \/ s.ended THEN {TRUE, FALSE} ELSE {FALSE}

\* the try/catch around stop(), had it no catch: clear() throws what stop()
\* threw
StopNoCatch(thrown) == thrown

\* the try/catch around stop(): the catch block is empty, so nothing that
\* stop() throws leaves clear()
StopCatch(thrown) == FALSE

\* clear()
Clear ==
    /\ queue' = <<>>
    /\ IF currentSource # 0
       THEN \E thrown \in StopThrows(sources[currentSource]) :
               /\ sources' = IF thrown THEN sources
                              ELSE [sources EXCEPT ![currentSource] =
                                      IF @.stopped THEN @
                                      ELSE [@ EXCEPT !.stopped = TRUE,
                                                     !.stopTime = currentTime]]
               /\ clearThrew' = StopCatch(thrown)
               /\ currentSource' = 0
       ELSE /\ UNCHANGED <<sources, currentSource>>
            /\ clearThrew' = FALSE
    /\ isPlaying' = FALSE
    /\ nextStartTime' = 0
    /\ justCleared' = TRUE
    /\ justDropped' = FALSE
    /\ UNCHANGED enqueueRejected
    /\ UNCHANGED notAQ
    /\ UNCHANGED <<audioContext, currentTime, calls, callsMade, contextsCreated>>

\* the device clock of a running context advances
Tick ==
    /\ audioContext = "running"
    /\ currentTime < MaxTime
    /\ currentTime' = currentTime + 1
    /\ justCleared' = FALSE
    /\ justDropped' = FALSE
    /\ UNCHANGED <<clearThrew, enqueueRejected>>
    /\ UNCHANGED notAQ
    /\ UNCHANGED <<queue, isPlaying, audioContext, currentSource, nextStartTime,
                   sources, calls, callsMade, contextsCreated>>

\* the steps of an AudioQueue on which clear() is never called
AQSteps ==
    \/ InitCall
    \/ \E kind \in DataKinds : Enqueue(kind)
    \/ \E c \in calls : ResumeDone(c)
    \/ \E c \in calls : AfterInit(c)
    \/ \E c \in calls : ReadDone(c)
    \/ \E c \in calls, d \in Durations : DecodeOk(c, d)
    \/ \E c \in calls : DecodeFail(c)
    \/ \E s \in 1..Len(sources) : OnEnded(s)
    \/ Tick

\* the ended event of some source node is dispatched
EndedEvents == \E s \in 1..Len(sources) : OnEnded(s)

\* audioContext.resume() resolves
Resumes == \E c \in calls : ResumeDone(c)

\* the steps of an AudioQueue that is handed one ArrayBuffer at a time, while
\* earlier ones play, and on which clear() is never called
AQLiveSteps ==
    \/ calls = {} /\ Enqueue("ArrayBuffer")
    \/ Resumes
    \/ \E c \in calls : AfterInit(c)
    \/ \E c \in calls, d \in Durations : DecodeOk(c, d)
    \/ \E c \in calls : DecodeFail(c)
    \/ EndedEvents
    \/ Tick

\* the steps of an AudioQueue that is handed one ArrayBuffer at a time, each
\* of which decodes, and on which clear() may be called at any moment
AQCancelSteps ==
    \/ calls = {} /\ Enqueue("ArrayBuffer")
    \/ \E c \in calls : ResumeDone(c)
    \/ \E c \in calls : AfterInit(c)
    \/ \E c \in calls, d \in Durations : DecodeOk(c, d)
    \/ \E s \in 1..Len(sources) : OnEnded(s)
    \/ Tick
    \/ Clear

(***************************************************************************)
(* SessionWebSocket.                                                       *)
(***************************************************************************)
\* this.maxReconnectAttempts
maxReconnectAttempts == 5

\* close codes a CloseEvent carries: normal closure and abnormal closure
CloseCodes == {1000, 1006}

NoSend == [op |-> "none", transmitted |-> FALSE, outcome |-> "none"]

WSInit ==
    /\ ws = 0
    /\ socks = <<>>
    /\ reconnectAttempts = 0
    /\ timers = 0
    /\ lastSend = NoSend
    /\ connectCalls = 0
    /\ userDisconnected = FALSE
    /\ scheduledSinceOpen = 0
    /\ terminalCount = 0
    /\ retryEvents = {}
    /\ termEvents = {}
    /\ inbound = <<>>
    /\ handled = <<>>
    /\ disconnectThrew = FALSE
    /\ outbox = <<>>
    /\ sendsMade = 0

\* the sockets that are connecting or open
LiveSockets == {i \in 1..Len(socks) : socks[i] \in {"CONNECTING", "OPEN"}}

\* this.ws && this.ws.readyState === WebSocket.OPEN
IsOpen == ws # 0 /\ socks[ws] = "OPEN"

\* the body of connect(): a new WebSocket, assigned to this.ws
NewSocket ==
    /\ Len(socks) < MaxSockets
    /\ socks' = Append(socks, "CONNECTING")
    /\ ws' = Len(socks) + 1

\* connect() called by the owner of the instance
Connect ==
    /\ connectCalls < MaxConnectCalls
    /\ NewSocket
    /\ connectCalls' = connectCalls + 1
    /\ userDisconnected' = FALSE
    /\ UNCHANGED <<reconnectAttempts, timers, lastSend, scheduledSinceOpen,
                   terminalCount, retryEvents, termEvents>>
    /\ UNCHANGED <<wsLog, disconnectThrew>>
    /\ UNCHANGED wsOut
    /\ UNCHANGED notWS

\* a reconnect timer fires and runs connect(), had connect() reset the
\* attempt counter
TimerFiresResets ==
    /\ timers > 0
    /\ NewSocket
    /\ timers' = timers - 1
    /\ reconnectAttempts' = 0
    /\ UNCHANGED <<lastSend, connectCalls, userDisconnected,
                   scheduledSinceOpen, terminalCount, retryEvents, termEvents>>
    /\ UNCHANGED <<wsLog, disconnectThrew>>
    /\ UNCHANGED wsOut
    /\ UNCHANGED notWS

\* a reconnect timer fires and runs connect()
TimerFires ==
    /\ timers > 0
    /\ NewSocket
    /\ timers' = timers - 1
    /\ UNCHANGED <<reconnectAttempts, lastSend, connectCalls, userDisconnected,
                   scheduledSinceOpen, terminalCount, retryEvents, termEvents>>
    /\ UNCHANGED <<wsLog, disconnectThrew>>
    /\ UNCHANGED wsOut
    /\ UNCHANGED notWS

\* ws.onopen of socket i
OnOpen(i) ==
    /\ socks[i] = "CONNECTING"
    /\ socks' = [socks EXCEPT ![i] = "OPEN"]
    /\ reconnectAttempts' = 0
    /\ scheduledSinceOpen' = 0
    /\ terminalCount' = 0
    /\ UNCHANGED <<ws, timers, lastSend, connectCalls, userDisconnected,
                   retryEvents, termEvents>>
    /\ UNCHANGED <<wsLog, disconnectThrew>>
    /\ UNCHANGED wsOut
    /\ UNCHANGED notWS

\* the event ws.onclose hands to onMessage; retry tells whether the handler
\* goes on to schedule a reconnect
DisconnectEvent(code, retry) == [type |-> "ws_disconnected", code |-> code]

\* the auto-reconnect test of ws.onclose
CanReconnectLax(attempts) == attempts <= maxReconnectAttempts

CanReconnect(attempts) == attempts < maxReconnectAttempts

\* ws.onclose of socket i, with the close code of the event
OnClose(i, code) ==
    /\ socks[i] # "CLOSED"
    /\ socks' = [socks EXCEPT ![i] = "CLOSED"]
    /\ IF CanReconnect(reconnectAttempts)
       THEN /\ reconnectAttempts' = reconnectAttempts + 1
            /\ timers' = timers + 1
            /\ scheduledSinceOpen' = scheduledSinceOpen + 1
            /\ retryEvents' = retryEvents \cup {DisconnectEvent(code, TRUE)}
            /\ UNCHANGED <<terminalCount, termEvents>>
       ELSE /\ terminalCount' = terminalCount + 1
            /\ termEvents' = termEvents \cup {DisconnectEvent(code, FALSE)}
            /\ UNCHANGED <<reconnectAttempts, timers, scheduledSinceOpen,
                           retryEvents>>
    /\ UNCHANGED <<ws, lastSend, connectCalls, userDisconnected>>
    /\ UNCHANGED <<wsLog, disconnectThrew>>
    /\ UNCHANGED wsOut
    /\ UNCHANGED notWS

\* what sendAudioFile and requestHistory give their caller: both return
\* normally (undefined) whether or not the frame was written
SendOutcome(open) == "returns"

\* the frames written once a send call returns, had it no readyState test
WriteFrameAnyState(op) ==
    IF ws # 0 THEN Append(outbox, [op |-> op, sock |-> ws]) ELSE outbox

\* the frames written once a send call returns: this.ws.send(...) when the
\* socket is there and open, nothing otherwise (the frame is not kept)
WriteFrame(op) ==
    IF IsOpen THEN Append(outbox, [op |-> op, sock |-> ws]) ELSE outbox

\* sendAudioFile(audioBase64)
SendAudioFile ==
    /\ sendsMade < MaxSends
    /\ sendsMade' = sendsMade + 1
    /\ outbox' = WriteFrame("audio_file")
    /\ lastSend' = [op |-> "audio_file", transmitted |-> IsOpen,
                    outcome |-> SendOutcome(IsOpen)]
    /\ UNCHANGED <<ws, socks, reconnectAttempts, timers, connectCalls,
                   userDisconnected, scheduledSinceOpen, terminalCount,
                   retryEvents, termEvents>>
    /\ UNCHANGED <<wsLog, disconnectThrew>>
    /\ UNCHANGED notWS

\* requestHistory()
RequestHistory ==
    /\ sendsMade < MaxSends
    /\ sendsMade' = sendsMade + 1
    /\ outbox' = WriteFrame("get_history")
    /\ lastSend' = [op |-> "get_history", transmitted |-> IsOpen,
                    outcome |-> SendOutcome(IsOpen)]
    /\ UNCHANGED <<ws, socks, reconnectAttempts, timers, connectCalls,
                   userDisconnected, scheduledSinceOpen, terminalCount,
                   retryEvents, termEvents>>
    /\ UNCHANGED <<wsLog, disconnectThrew>>
    /\ UNCHANGED notWS

\* this.ws.close() on the receiver `target`: a TypeError when the receiver is
\* null; close() called without arguments raises nothing in any readyState
CloseThrows(target) == target = 0

\* disconnect(): close() the current socket, if any, and forget it
Disconnect ==
    /\ IF ws # 0
       THEN /\ socks' = [socks EXCEPT ![ws] =
                   IF @ \in {"CONNECTING", "OPEN"} THEN "CLOSING" ELSE @]
            /\ ws' = 0
            /\ disconnectThrew' = CloseThrows(ws)
       ELSE /\ UNCHANGED <<ws, socks>>
            /\ disconnectThrew' = FALSE
    /\ userDisconnected' = TRUE
    /\ UNCHANGED <<reconnectAttempts, timers, lastSend, connectCalls,
                   scheduledSinceOpen, terminalCount, retryEvents, termEvents>>
    /\ UNCHANGED wsLog
    /\ UNCHANGED wsOut
    /\ UNCHANGED notWS

\* the JSON texts a text frame carries: an event the session page knows, an
\* event of a type it does not know, and a text cut off in the middle
KnownText == "{\"type\":\"processing_started\"}"

UnknownText == "{\"type\":\"bogus\"}"

MalformedText == "{\"type\":"

\* the inbound frames: event.data is a string for a text frame and a Blob
\* for a binary frame
Frames ==
    { [kind |-> "text", data |-> t] : t \in {KnownText, UnknownText, MalformedText} }
        \cup { [kind |-> "binary", data |-> "Blob"] }

\* the string JSON.parse makes of its argument: the text itself, and
\* "[object Blob]" for a Blob
DataToString(f) == IF f.kind = "text" THEN f.data ELSE "[object Blob]"

\* JSON.parse: the value of a JSON text, or a SyntaxError
JsonParse(str) ==
    IF str = KnownText
    THEN [ok |-> TRUE, value |-> [type |-> "processing_started"]]
    ELSE IF str = UnknownText
    THEN [ok |-> TRUE, value |-> [type |-> "bogus"]]
    ELSE [ok |-> FALSE, value |-> [type |-> "SyntaxError"]]

\* the event types SenderSession.handleWebSocketMessage has a case for
KnownTypes ==
    {"ws_connected", "connected", "ws_disconnected", "participant_joined",
     "participant_left", "processing_started", "error"}

\* handleWebSocketMessage(data): a case of the switch runs, or the default
\* branch logs 'Unhandled message type'; it returns normally either way
HandleWebSocketMessage(data) ==
    IF data.type \in KnownTypes THEN "handled" ELSE "logged"

\* the event ws.onerror hands to onMessage, were it a disconnect event
ErrorEventAsClose == [type |-> "ws_disconnected", code |-> 1006]

\* the event ws.onerror hands to onMessage
ErrorEvent == [type |-> "error", error |-> "WebSocket error occurred"]

\* message and error events dispatched so far
EventsDispatched ==
    Len(inbound) + Cardinality({k \in 1..Len(handled) : handled[k].src = "transport"})

\* the sockets after the catch block of ws.onmessage ran for socket i, had
\* it closed the socket
AfterParseErrorClose(i) == [socks EXCEPT ![i] = "CLOSING"]

\* the sockets after the catch block of ws.onmessage ran for socket i: it
\* logs the error and does nothing else
AfterParseError(i) == socks

\* ws.onmessage of socket i, for the frame f
OnMessage(i, f) ==
    /\ socks[i] = "OPEN"
    /\ EventsDispatched < MaxFrames
    /\ inbound' = Append(inbound, f)
    /\ LET parsed == JsonParse(DataToString(f))
       IN IF parsed.ok
          THEN /\ handled' = Append(handled,
                      [src |-> "frame", data |-> parsed.value,
                       res |-> HandleWebSocketMessage(parsed.value)])
               /\ UNCHANGED socks
          ELSE /\ UNCHANGED handled
               /\ socks' = AfterParseError(i)
    /\ UNCHANGED <<ws, reconnectAttempts, timers, lastSend, connectCalls,
                   userDisconnected, scheduledSinceOpen, terminalCount,
                   retryEvents, termEvents, disconnectThrew>>
    /\ UNCHANGED wsOut
    /\ UNCHANGED notWS

\* ws.onerror of socket i
OnError(i) ==
    /\ socks[i] # "CLOSED"
    /\ EventsDispatched < MaxFrames
    /\ handled' = Append(handled,
           [src |-> "transport", data |-> ErrorEvent,
            res |-> HandleWebSocketMessage(ErrorEvent)])
    /\ UNCHANGED <<ws, socks, reconnectAttempts, timers, lastSend, connectCalls,
                   userDisconnected, scheduledSinceOpen, terminalCount,
                   retryEvents, termEvents, inbound, disconnectThrew>>
    /\ UNCHANGED wsOut
    /\ UNCHANGED notWS

\* the steps of a SessionWebSocket that connects, reconnects and is
\* disconnected, its owner making no sendAudioFile or requestHistory call
WSSteps ==
    \/ Connect
    \/ TimerFires
    \/ \E i \in 1..Len(socks) : OnOpen(i)
    \/ \E i \in 1..Len(socks), code \in CloseCodes : OnClose(i, code)
    \/ Disconnect

\* connect() as the session page calls it: once, when the page is set up
ConnectOnce == connectCalls = 0 /\ Connect

\* the steps of a SessionWebSocket with the sendAudioFile and
\* requestHistory calls of its owner, who calls connect() once
WSSendSteps ==
    \/ ConnectOnce
    \/ TimerFires
    \/ \E i \in 1..Len(socks) : OnOpen(i)
    \/ \E i \in 1..Len(socks), code \in CloseCodes : OnClose(i, code)
    \/ Disconnect
    \/ SendAudioFile
    \/ RequestHistory

\* the steps of a SessionWebSocket with the message and error events of its
\* sockets, its owner calling connect() once and making no sendAudioFile or
\* requestHistory call
WSMsgSteps ==
    \/ ConnectOnce
    \/ TimerFires
    \/ \E i \in 1..Len(socks) : OnOpen(i)
    \/ \E i \in 1..Len(socks), code \in CloseCodes : OnClose(i, code)
    \/ Disconnect
    \/ \E i \in 1..Len(socks), f \in Frames : OnMessage(i, f)
    \/ \E i \in 1..Len(socks) : OnError(i)

(***************************************************************************)
(* FileUpload.                                                             *)
(***************************************************************************)
\* file names are sequences of characters
UpperCase == <<"A", "B", "C", "D", "E", "F", "G", "H", "I", "J", "K", "L", "M",
               "N", "O", "P", "Q", "R", "S", "T", "U", "V", "W", "X", "Y", "Z">>

LowerCase == <<"a", "b", "c", "d", "e", "f", "g", "h", "i", "j", "k", "l", "m",
               "n", "o", "p", "q", "r", "s", "t", "u", "v", "w", "x", "y", "z">>

\* String.prototype.toLowerCase
ToLowerCase(str) ==
    [k \in 1..Len(str) |->
        IF \E u \in 1..Len(UpperCase) : UpperCase[u] = str[k]
        THEN LowerCase[CHOOSE u \in 1..Len(UpperCase) : UpperCase[u] = str[k]]
        ELSE str[k]]

\* String.prototype.lastIndexOf: the 0-based index of the last ch, or -1
LastIndexOf(str, ch) ==
    LET hits == {k \in 1..Len(str) : str[k] = ch}
    IN IF hits = {} THEN -1
       ELSE (CHOOSE k \in hits : \A m \in hits : m <= k) - 1

\* String.prototype.substring(start): a negative start counts as 0
Substring(str, start) ==
    LET from == IF start < 0 THEN 0 ELSE start
    IN SubSeq(str, from + 1, Len(str))

ALLOWED_FORMATS ==
    { <<".", "m", "p", "3">>, <<".", "w", "a", "v">>, <<".", "m", "4", "a">>,
      <<".", "o", "g", "g">>, <<".", "f", "l", "a", "c">>,
      <<".", "w", "e", "b", "m">> }

MAX_FILE_SIZE == 25 * 1024 * 1024

\* the file names offered to the component
GoodNames ==
    { <<"a", ".", "m", "p", "3">>, <<"a", ".", "W", "A", "V">>,
      <<"a", ".", "b", ".", "m", "4", "a">>, <<".", "o", "g", "g">>,
      <<"a", ".", "F", "l", "a", "c">>, <<"a", ".", "w", "e", "b", "m">> }

BadNames ==
    { <<"a", ".", "x", "y", "z">>, <<"m", "p", "3">>,
      <<"a", ".", "m", "p", "3", ".", "x">>, <<"a", ".", "m", "p", "3", ".">>,
      <<"a", "m", "p", "3">>, <<"a", ".", "m", "p", "4">> }

FileNames == GoodNames \cup BadNames

FileSizes == {0, MAX_FILE_SIZE, MAX_FILE_SIZE + 1, 30 * 1024 * 1024}

Files == [name : FileNames, size : FileSizes]

NoFile == [name |-> <<>>, size |-> 0]

\* one file that passes validation and one that does not
PolledFiles ==
    { [name |-> <<"a", ".", "m", "p", "3">>, size |-> MAX_FILE_SIZE],
      [name |-> <<"a", ".", "x", "y", "z">>, size |-> MAX_FILE_SIZE] }

\* validateFile without its size check
ValidateFileNoSize(f) ==
    LET ext == ToLowerCase(Substring(f.name, LastIndexOf(f.name, ".")))
    IN IF ext \notin ALLOWED_FORMATS THEN "Invalid file format"
       ELSE "ok"

\* validateFile: "ok", or the message of the Error it throws
ValidateFile(f) ==
    LET ext == ToLowerCase(Substring(f.name, LastIndexOf(f.name, ".")))
    IN IF ext \notin ALLOWED_FORMATS THEN "Invalid file format"
       ELSE IF f.size > MAX_FILE_SIZE THEN "File size exceeds 25MB limit"
       ELSE "ok"

\* progress values a status response carries
ProgressValues == {0, 40}

\* the response of the status endpoint for a job in state st
Responses(st) ==
    IF st = "Running"
    THEN { [state |-> "PROGRESS", audio_status |-> "processing", progress |-> p,
            status_message |-> IF p = 0 THEN "" ELSE "Transcribing",
            error |-> ""] : p \in ProgressValues }
    ELSE IF st = "Succeeded"
    THEN { [state |-> "SUCCESS", audio_status |-> "completed", progress |-> 100,
            status_message |-> "Done", error |-> ""] }
    ELSE { [state |-> "FAILURE", audio_status |-> "failed", progress |-> 0,
            status_message |-> "", error |-> e] : e \in {"", "Decoding failed"} }

Pending == [state |-> "none"]

\* the sequence without its i-th element
RemoveAt(seq, i) == SubSeq(seq, 1, i - 1) \o SubSeq(seq, i + 1, Len(seq))

FUInit ==
    /\ file = NoFile
    /\ uploading = FALSE
    /\ processing = FALSE
    /\ progress = 0
    /\ status = "idle"
    /\ statusMessage = ""
    /\ error = ""
    /\ result = 0
    /\ pollIntervalRef = 0
    /\ activeIntervals = {}
    /\ post = NoFile
    /\ jobState = <<>>
    /\ requests = <<>>
    /\ uploadsMade = 0
    /\ requestsMade = 0
    /\ reports = <<>>
    /\ lateChange = FALSE
    /\ lateRequest = FALSE
    /\ verdicts = <<>>
    /\ repeatedProgress = -1
    /\ requestFailures = <<>>

\* what the component shows
Shown == <<processing, progress, status, statusMessage, error, result>>

\* handleFileSelect(selectedFile), from the file input or a drop
HandleFileSelect(f) ==
    /\ result' = 0
    /\ LET verdict == ValidateFile(f)
       IN IF verdict = "ok"
          THEN /\ error' = ""
               /\ file' = f
               /\ statusMessage' = "File ready for upload"
          ELSE /\ error' = verdict
               /\ file' = NoFile
               /\ UNCHANGED statusMessage
    /\ UNCHANGED <<uploading, processing, progress, status, pollIntervalRef,
                   activeIntervals, post, jobState, requests, uploadsMade,
                   requestsMade, reports, lateChange, lateRequest>>
    /\ UNCHANGED <<verdicts, repeatedProgress, requestFailures>>
    /\ UNCHANGED notFU

\* handleUpload up to `await axios.post`; the Upload button is rendered when
\* file && !uploading && !processing && !result
HandleUpload ==
    /\ file # NoFile /\ ~uploading /\ ~processing /\ result = 0
    /\ uploadsMade < MaxUploads
    /\ uploadsMade' = uploadsMade + 1
    /\ error' = ""
    /\ uploading' = TRUE
    /\ status' = "processing"
    /\ statusMessage' = "Uploading file..."
    /\ progress' = 0
    /\ post' = file
    /\ UNCHANGED <<file, processing, result, pollIntervalRef, activeIntervals,
                   jobState, requests, requestsMade, reports, lateChange,
                   lateRequest>>
    /\ repeatedProgress' = -1
    /\ UNCHANGED <<verdicts, requestFailures>>
    /\ UNCHANGED notFU

\* the POST resolves with a task id: the job exists and polling starts
UploadOk ==
    /\ post # NoFile
    /\ LET task_id == Len(jobState) + 1
       IN /\ jobState' = Append(jobState, "Running")
          /\ reports' = Append(reports, 0)
          /\ pollIntervalRef' = task_id
          /\ activeIntervals' = activeIntervals \cup {task_id}
    /\ post' = NoFile
    /\ uploading' = FALSE
    /\ processing' = TRUE
    /\ statusMessage' = "Processing audio..."
    /\ UNCHANGED <<file, progress, status, error, result, requests, uploadsMade,
                   requestsMade, lateChange, lateRequest>>
    /\ verdicts' = Append(verdicts, {})
    /\ requestFailures' = Append(requestFailures, 0)
    /\ UNCHANGED repeatedProgress
    /\ UNCHANGED notFU

\* the POST fails
UploadFail ==
    /\ post # NoFile
    /\ post' = NoFile
    /\ uploading' = FALSE
    /\ status' = "error"
    /\ error' = "Upload failed"
    /\ UNCHANGED <<file, processing, progress, statusMessage, result,
                   pollIntervalRef, activeIntervals, jobState, requests,
                   uploadsMade, requestsMade, reports, lateChange, lateRequest>>
    /\ UNCHANGED <<verdicts, repeatedProgress, requestFailures>>
    /\ UNCHANGED notFU

\* interval k fires: pollStatus(task_id) issues its GET
PollTick(k) ==
    /\ k \in activeIntervals
    /\ requestsMade < MaxRequests
    /\ requestsMade' = requestsMade + 1
    /\ requests' = Append(requests, [job |-> k, resp |-> Pending])
    /\ lateRequest' = (lateRequest \/ reports[k] > 0)
    /\ UNCHANGED <<file, uploading, processing, progress, status, statusMessage,
                   error, result, pollIntervalRef, activeIntervals, post,
                   jobState, uploadsMade, reports, lateChange>>
    /\ UNCHANGED <<verdicts, repeatedProgress, requestFailures>>
    /\ UNCHANGED notFU

\* the processing collaborator finishes job j
JobEnds(j, st) ==
    /\ jobState[j] = "Running"
    /\ jobState' = [jobState EXCEPT ![j] = st]
    /\ UNCHANGED <<file, uploading, processing, progress, status, statusMessage,
                   error, result, pollIntervalRef, activeIntervals, post,
                   requests, uploadsMade, requestsMade, reports, lateChange,
                   lateRequest>>
    /\ UNCHANGED <<verdicts, repeatedProgress, requestFailures>>
    /\ UNCHANGED notFU

\* the server answers status request r
ServerAnswers(i, data) ==
    /\ requests[i].resp = Pending
    /\ data \in Responses(jobState[requests[i].job])
    /\ requests' = [requests EXCEPT ![i].resp = data]
    /\ UNCHANGED <<file, uploading, processing, progress, status, statusMessage,
                   error, result, pollIntervalRef, activeIntervals, post,
                   jobState, uploadsMade, requestsMade, reports, lateChange,
                   lateRequest>>
    /\ UNCHANGED <<verdicts, repeatedProgress, requestFailures>>
    /\ UNCHANGED notFU

\* clearInterval(pollIntervalRef.current), had it cleared nothing
ClearPollIntervalNever == activeIntervals

\* clearInterval(pollIntervalRef.current)
ClearPollInterval == activeIntervals \ {pollIntervalRef}

\* the test of the failure branch of pollStatus
IsFailed(data) == data.state = "FAILURE" \/ data.audio_status = "failed"

\* the test of the success branch of pollStatus, had it never passed
IsCompletedNever(data) == FALSE

\* the test of the success branch of pollStatus
IsCompleted(data) == data.state = "SUCCESS" /\ data.audio_status = "completed"

\* data.error || 'Processing failed', had the server's message been dropped
FailureMessageFixed(data) == "Processing failed"

\* data.error || 'Processing failed'
FailureMessage(data) ==
    IF data.error # "" THEN data.error ELSE "Processing failed"

\* pollStatus after `await axios.get` resolved with the response of r
PollResponse(i) ==
    /\ requests[i].resp # Pending
    /\ requests' = RemoveAt(requests, i)
    /\ LET r == requests[i]
           data == r.resp
       IN /\ progress' = data.progress
          /\ IF IsCompleted(data)
             THEN /\ activeIntervals' = ClearPollInterval
                  /\ processing' = FALSE
                  /\ status' = "success"
                  /\ statusMessage' = "Translation complete!"
                  /\ result' = r.job
                  /\ reports' = [reports EXCEPT ![r.job] = @ + 1]
                  /\ UNCHANGED error
             ELSE IF IsFailed(data)
             THEN /\ activeIntervals' = ClearPollInterval
                  /\ processing' = FALSE
                  /\ status' = "error"
                  /\ error' = FailureMessage(data)
                  /\ statusMessage' = IF data.status_message # ""
                                      THEN data.status_message
                                      ELSE "Processing..."
                  /\ reports' = [reports EXCEPT ![r.job] = @ + 1]
                  /\ UNCHANGED result
             ELSE /\ statusMessage' = IF data.status_message # ""
                                      THEN data.status_message
                                      ELSE "Processing..."
                  /\ UNCHANGED <<activeIntervals, processing, status, error,
                                 result, reports>>
    /\ UNCHANGED <<file, uploading, pollIntervalRef, post, jobState,
                   uploadsMade, requestsMade, lateRequest>>
    /\ lateChange' = (lateChange \/ (reports[requests[i].job] > 0 /\ Shown' # Shown))
    /\ LET data == requests[i].resp
           job == requests[i].job
       IN /\ verdicts' =
                IF IsCompleted(data)
                THEN [verdicts EXCEPT ![job] = @ \cup {"success"}]
                ELSE IF IsFailed(data)
                THEN [verdicts EXCEPT ![job] = @ \cup {"error"}]
                ELSE verdicts
          /\ repeatedProgress' =
                IF /\ ~IsCompleted(data)
                   /\ ~IsFailed(data)
                   /\ data.progress = progress
                THEN data.progress
                ELSE repeatedProgress
    /\ UNCHANGED requestFailures
    /\ UNCHANGED notFU

\* the catch block of pollStatus, had it left the interval running
PollErrorKeepsPolling(i) ==
    /\ requests' = RemoveAt(requests, i)
    /\ processing' = FALSE
    /\ status' = "error"
    /\ error' = "Failed to check processing status"
    /\ UNCHANGED <<file, uploading, progress, statusMessage, result,
                   pollIntervalRef, activeIntervals, post, jobState,
                   uploadsMade, requestsMade, reports, lateRequest>>
    /\ lateChange' = (lateChange \/ (reports[requests[i].job] > 0 /\ Shown' # Shown))
    /\ verdicts' = [verdicts EXCEPT ![requests[i].job] = @ \cup {"error"}]
    /\ requestFailures' = [requestFailures EXCEPT ![requests[i].job] = @ + 1]
    /\ UNCHANGED repeatedProgress
    /\ UNCHANGED notFU

\* pollStatus when `await axios.get` rejected: the catch block
PollError(i) ==
    /\ requests' = RemoveAt(requests, i)
    /\ activeIntervals' = ClearPollInterval
    /\ processing' = FALSE
    /\ status' = "error"
    /\ error' = "Failed to check processing status"
    /\ UNCHANGED <<file, uploading, progress, statusMessage, result,
                   pollIntervalRef, post, jobState, uploadsMade, requestsMade,
                   reports, lateRequest>>
    /\ lateChange' = (lateChange \/ (reports[requests[i].job] > 0 /\ Shown' # Shown))
    /\ verdicts' = [verdicts EXCEPT ![requests[i].job] = @ \cup {"error"}]
    /\ requestFailures' = [requestFailures EXCEPT ![requests[i].job] = @ + 1]
    /\ UNCHANGED repeatedProgress
    /\ UNCHANGED notFU

\* handleReset; its buttons are rendered when file && !uploading &&
\* !processing, and when result
HandleReset ==
    /\ (file # NoFile /\ ~uploading /\ ~processing) \/ result # 0
    /\ file' = NoFile
    /\ uploading' = FALSE
    /\ processing' = FALSE
    /\ progress' = 0
    /\ status' = "idle"
    /\ statusMessage' = ""
    /\ error' = ""
    /\ result' = 0
    /\ activeIntervals' = IF pollIntervalRef # 0 THEN ClearPollInterval
                          ELSE activeIntervals
    /\ UNCHANGED <<pollIntervalRef, post, jobState, requests, uploadsMade,
                   requestsMade, reports, lateChange, lateRequest>>
    /\ UNCHANGED <<verdicts, repeatedProgress, requestFailures>>
    /\ UNCHANGED notFU

\* the steps of the component before the first tick of a polling interval,
\* with every file of Files offered
FUFileSteps ==
    \/ \E f \in Files : HandleFileSelect(f)
    \/ HandleUpload
    \/ UploadOk
    \/ UploadFail
    \/ HandleReset

\* the steps of the component with its polling, with the files of
\* PolledFiles offered
FUSteps ==
    \/ \E f \in PolledFiles : HandleFileSelect(f)
    \/ HandleUpload
    \/ UploadOk
    \/ UploadFail
    \/ \E k \in activeIntervals : PollTick(k)
    \/ \E j \in 1..Len(jobState), st \in {"Succeeded", "Failed"} : JobEnds(j, st)
    \/ \E i \in 1..Len(requests), st \in {"Running", "Succeeded", "Failed"} :
          \E data \in Responses(st) : ServerAnswers(i, data)
    \/ \E i \in 1..Len(requests) : PollResponse(i)
    \/ \E i \in 1..Len(requests) : PollError(i)
    \/ HandleReset

\* the steps of the component with its polling, with the file of PolledFiles
\* that passes validation offered
FUPollSteps ==
    \/ \E f \in {g \in PolledFiles : ValidateFile(g) = "ok"} : HandleFileSelect(f)
    \/ HandleUpload
    \/ UploadOk
    \/ UploadFail
    \/ \E k \in activeIntervals : PollTick(k)
    \/ \E j \in 1..Len(jobState), st \in {"Succeeded", "Failed"} : JobEnds(j, st)
    \/ \E i \in 1..Len(requests), st \in {"Running", "Succeeded", "Failed"} :
          \E data \in Responses(st) : ServerAnswers(i, data)
    \/ \E i \in 1..Len(requests) : PollResponse(i)
    \/ \E i \in 1..Len(requests) : PollError(i)
    \/ HandleReset

\* handleUpload for the first job of the component
UploadOnce == uploadsMade = 0 /\ HandleUpload

\* a tick of an interval that is running
PollTicks == \E k \in activeIntervals : PollTick(k)

\* the server answers a status request
ServerAnswersSome ==
    \E i \in 1..Len(requests), st \in {"Running", "Succeeded", "Failed"} :
       \E data \in Responses(st) : ServerAnswers(i, data)

\* pollStatus resumes with a response that has arrived
PollResponses == \E i \in 1..Len(requests) : PollResponse(i)

\* the steps of the component with a single job, from its upload to the end
\* of its polling
FUJobSteps ==
    \/ \E f \in {g \in PolledFiles : ValidateFile(g) = "ok"} : HandleFileSelect(f)
    \/ UploadOnce
    \/ UploadOk
    \/ UploadFail
    \/ PollTicks
    \/ \E j \in 1..Len(jobState), st \in {"Succeeded", "Failed"} : JobEnds(j, st)
    \/ ServerAnswersSome
    \/ PollResponses
    \/ \E i \in 1..Len(requests) : PollError(i)
    \/ HandleReset

(***************************************************************************)
(* LiveRecording.                                                          *)
(***************************************************************************)
LRInit ==
    /\ isRecording = FALSE
    /\ websocketRef = 0
    /\ mediaRecorderRef = 0
    /\ mediaStreamRef = 0
    /\ translate = <<>>
    /\ recorders = <<>>
    /\ starts = {}
    /\ startsMade = 0
    /\ chunksSent = 0

\* the handshake acknowledgements of the translate endpoint
HandshakeAcks == {"connection_established", "configured"}

\* handleStop(): stop the recorder and the tracks of the stream the refs
\* hold, close the socket the ref holds, forget stream and socket
HandleStopBody ==
    /\ recorders' =
          [r \in 1..Len(recorders) |->
              LET stopped == IF r = mediaRecorderRef /\ recorders[r].state # "inactive"
                             THEN [recorders[r] EXCEPT !.state = "inactive",
                                                       !.finalChunk = TRUE]
                             ELSE recorders[r]
              IN IF r # mediaStreamRef THEN stopped
                 ELSE IF stopped.state # "inactive"
                 THEN [stopped EXCEPT !.live = FALSE, !.state = "inactive",
                                      !.finalChunk = TRUE]
                 ELSE [stopped EXCEPT !.live = FALSE]]
    /\ mediaStreamRef' = 0
    /\ translate' =
          IF websocketRef # 0
          THEN [translate EXCEPT ![websocketRef].state =
                   IF @ \in {"CONNECTING", "OPEN"} THEN "CLOSING" ELSE @]
          ELSE translate
    /\ websocketRef' = 0
    /\ isRecording' = FALSE
    /\ UNCHANGED mediaRecorderRef

\* handleStart up to `await initializeWebSocket()`: a new WebSocket, held by
\* websocketRef; the Start button is rendered when !isRecording
HandleStart ==
    /\ ~isRecording
    /\ startsMade < MaxStarts
    /\ startsMade' = startsMade + 1
    /\ translate' = Append(translate,
           [state |-> "CONNECTING", acked |-> FALSE, sent |-> <<>>])
    /\ websocketRef' = Len(translate) + 1
    /\ starts' = starts \cup
           {[id |-> startsMade + 1, pc |-> "ws", sock |-> Len(translate) + 1,
             rec |-> 0]}
    /\ UNCHANGED <<isRecording, mediaRecorderRef, mediaStreamRef, recorders,
                   chunksSent>>
    /\ UNCHANGED notLR

\* ws.onopen of translate socket k, had it sent no configure frame
TranslateOnOpenNoConfigure(k) ==
    /\ translate[k].state = "CONNECTING"
    /\ translate' = [translate EXCEPT ![k].state = "OPEN"]
    /\ starts' = {IF st.sock = k /\ st.pc = "ws" THEN [st EXCEPT !.pc = "mic"] ELSE st :
                     st \in starts}
    /\ UNCHANGED <<isRecording, websocketRef, mediaRecorderRef, mediaStreamRef,
                   recorders, startsMade, chunksSent>>
    /\ UNCHANGED notLR

\* ws.onopen of translate socket k: send the configure frame and resolve
\* the promise; the handleStart that awaits it goes on to getUserMedia
TranslateOnOpen(k) ==
    /\ translate[k].state = "CONNECTING"
    /\ translate' = [translate EXCEPT
           ![k].state = "OPEN",
           ![k].sent = Append(@, [frame |-> "configure", acked |-> translate[k].acked])]
    /\ starts' = {IF st.sock = k /\ st.pc = "ws" THEN [st EXCEPT !.pc = "mic"] ELSE st :
                     st \in starts}
    /\ UNCHANGED <<isRecording, websocketRef, mediaRecorderRef, mediaStreamRef,
                   recorders, startsMade, chunksSent>>
    /\ UNCHANGED notLR

\* ws.onmessage of translate socket k for a handshake acknowledgement
TranslateOnMessage(k, type) ==
    /\ translate[k].state = "OPEN"
    /\ type \in HandshakeAcks
    /\ ~translate[k].acked
    /\ translate' = [translate EXCEPT ![k].acked = TRUE]
    /\ UNCHANGED <<isRecording, websocketRef, mediaRecorderRef, mediaStreamRef,
                   recorders, starts, startsMade, chunksSent>>
    /\ UNCHANGED notLR

\* ws.onerror of translate socket k: reject(error); a handleStart that still
\* awaits the promise goes to its catch block, which runs handleStop()
TranslateOnError(k) ==
    /\ translate[k].state # "CLOSED"
    /\ IF \E st \in starts : st.sock = k /\ st.pc = "ws"
       THEN /\ starts' = {st \in starts : ~(st.sock = k /\ st.pc = "ws")}
            /\ HandleStopBody
       ELSE UNCHANGED <<starts, isRecording, websocketRef, mediaRecorderRef,
                        mediaStreamRef, translate, recorders>>
    /\ UNCHANGED <<startsMade, chunksSent>>
    /\ UNCHANGED notLR

\* ws.onclose of translate socket k
TranslateOnClose(k) ==
    /\ translate[k].state # "CLOSED"
    /\ translate' = [translate EXCEPT ![k].state = "CLOSED"]
    /\ UNCHANGED <<isRecording, websocketRef, mediaRecorderRef, mediaStreamRef,
                   recorders, starts, startsMade, chunksSent>>
    /\ UNCHANGED notLR

\* getUserMedia resolves for the handleStart st: a MediaRecorder on the new
\* stream, both held by the refs; handleStart goes on to
\* `await audioQueueRef.current.init()`
MicGranted(st) ==
    /\ st.pc = "mic"
    /\ recorders' = Append(recorders,
           [state |-> "inactive", live |-> TRUE, finalChunk |-> FALSE])
    /\ mediaRecorderRef' = Len(recorders) + 1
    /\ mediaStreamRef' = Len(recorders) + 1
    /\ starts' = (starts \ {st}) \cup
           {[st EXCEPT !.pc = "init", !.rec = Len(recorders) + 1]}
    /\ UNCHANGED <<isRecording, websocketRef, translate, startsMade, chunksSent>>
    /\ UNCHANGED notLR

\* getUserMedia rejects: initializeMediaRecorder rethrows and the catch
\* block of handleStart runs handleStop()
MicDenied(st) ==
    /\ st.pc = "mic"
    /\ starts' = starts \ {st}
    /\ HandleStopBody
    /\ UNCHANGED <<startsMade, chunksSent>>
    /\ UNCHANGED notLR

\* the outcomes of mediaRecorder.start(500) on recorder r: it starts; on a
\* stream whose tracks were stopped it starts or throws
StartOutcomes(r) == IF recorders[r].live THEN {"starts"} ELSE {"starts", "throws"}

\* `await audioQueueRef.current.init()` resolves for the handleStart st:
\* mediaRecorder.start(500) and setIsRecording(true), or the catch block
RecorderStart(st) ==
    /\ st.pc = "init"
    /\ starts' = starts \ {st}
    /\ \E outcome \in StartOutcomes(st.rec) :
          IF outcome = "starts"
          THEN /\ recorders' = [recorders EXCEPT ![st.rec].state = "recording"]
               /\ isRecording' = TRUE
               /\ UNCHANGED <<websocketRef, mediaRecorderRef, mediaStreamRef,
                              translate>>
          ELSE HandleStopBody
    /\ UNCHANGED <<startsMade, chunksSent>>
    /\ UNCHANGED notLR

\* mediaRecorder.ondataavailable of recorder r, every 500 ms while it records
\* and once more after stop(): the chunk is sent when it is not empty and
\* the socket websocketRef holds is open
DataAvailable(r, size) ==
    /\ \/ recorders[r].state = "recording" /\ recorders[r].live
       \/ recorders[r].finalChunk
    /\ chunksSent < MaxChunks
    /\ recorders' = IF recorders[r].state = "recording" THEN recorders
                    ELSE [recorders EXCEPT ![r].finalChunk = FALSE]
    /\ IF size > 0 /\ websocketRef # 0 /\ translate[websocketRef].state = "OPEN"
       THEN /\ translate' = [translate EXCEPT ![websocketRef].sent =
                   Append(@, [frame |-> "chunk",
                              acked |-> translate[websocketRef].acked])]
            /\ chunksSent' = chunksSent + 1
       ELSE UNCHANGED <<translate, chunksSent>>
    /\ UNCHANGED <<isRecording, websocketRef, mediaRecorderRef, mediaStreamRef,
                   starts, startsMade>>
    /\ UNCHANGED notLR

\* handleStop() from the Stop button, rendered when isRecording
HandleStop ==
    /\ isRecording
    /\ HandleStopBody
    /\ UNCHANGED <<starts, startsMade, chunksSent>>
    /\ UNCHANGED notLR

LRSteps ==
    \/ HandleStart
    \/ \E k \in 1..Len(translate) : TranslateOnOpen(k)
    \/ \E k \in 1..Len(translate), type \in HandshakeAcks : TranslateOnMessage(k, type)
    \/ \E k \in 1..Len(translate) : TranslateOnError(k)
    \/ \E k \in 1..Len(translate) : TranslateOnClose(k)
    \/ \E st \in starts : MicGranted(st)
    \/ \E st \in starts : MicDenied(st)
    \/ \E st \in starts : RecorderStart(st)
    \/ \E r \in 1..Len(recorders), size \in {0, 1} : DataAvailable(r, size)
    \/ HandleStop

(***************************************************************************)
(* ReceiverSession.                                                        *)
(***************************************************************************)
RSInit ==
    /\ rsMessages = <<>>
    /\ playingMessageId = 0
    /\ currentAudio = 0
    /\ rsEvents = <<>>
    /\ rsPlays = <<>>
    /\ rsClicks = 0

\* message ids the relay uses
MessageIds == {1, 2}

\* data.audio of an event: absent or empty, base64 text, or text that atob
\* rejects
AudioFields == {"", "base64", "not base64"}

\* the events of the relay that carry a message
MessageEvents ==
    [type : {"new_message", "history_message"}, message_id : MessageIds,
     audio : AudioFields]

\* playAudio(audioBase64, messageId), called for event number ev (0 for a
\* click): atob throws on text that is not base64 and the catch block logs;
\* otherwise the object URL is set on the audio element and play() is called
PlayAudio(audioBase64, messageId, ev) ==
    IF audioBase64 = "not base64"
    THEN UNCHANGED <<currentAudio, playingMessageId, rsPlays>>
    ELSE /\ currentAudio' = Len(rsPlays) + 1
         /\ playingMessageId' = messageId
         /\ rsPlays' = Append(rsPlays, [message |-> messageId, event |-> ev])

\* whether the handler of the event reaches playAudio, had every event
\* with audio done so
AutoPlaysAnyEvent(data) == data.audio # ""

\* whether the handler of the event reaches playAudio: only
\* handleNewMessage calls it, and only `if (data.audio)`
AutoPlays(data) == data.type = "new_message" /\ data.audio # ""

\* handleNewMessage(data): the messages after setMessages
HandleNewMessage(data) ==
    Append(rsMessages, [id |-> data.message_id, audioBase64 |-> data.audio,
                        isNew |-> TRUE])

\* addMessageToHistory(data): the messages after setMessages; a message
\* whose id is there already is not added
AddMessageToHistory(data) ==
    IF \E k \in 1..Len(rsMessages) : rsMessages[k].id = data.message_id
    THEN rsMessages
    ELSE Append(rsMessages, [id |-> data.message_id, audioBase64 |-> "",
                             isNew |-> FALSE])

\* handleWebSocketMessage(data) for a new_message or history_message event
RSDeliver(data) ==
    /\ Len(rsEvents) < MaxDeliveries
    /\ rsEvents' = Append(rsEvents, data)
    /\ rsMessages' = IF data.type = "new_message" THEN HandleNewMessage(data)
                     ELSE AddMessageToHistory(data)
    /\ IF AutoPlays(data)
       THEN PlayAudio(data.audio, data.message_id, Len(rsEvents) + 1)
       ELSE UNCHANGED <<currentAudio, playingMessageId, rsPlays>>
    /\ UNCHANGED rsClicks
    /\ UNCHANGED notRS

\* a click on the Play Translation button of the k-th message; the button
\* is rendered when the message is not the one playing, and it calls
\* playAudio when the message has audioBase64
RSReplayClick(k) ==
    /\ rsClicks < MaxClicks
    /\ rsMessages[k].id # playingMessageId
    /\ rsMessages[k].audioBase64 # ""
    /\ rsClicks' = rsClicks + 1
    /\ PlayAudio(rsMessages[k].audioBase64, rsMessages[k].id, 0)
    /\ UNCHANGED <<rsMessages, rsEvents>>
    /\ UNCHANGED notRS

\* handleAudioEnded: the ended event of the audio element
HandleAudioEnded ==
    /\ playingMessageId # 0
    /\ playingMessageId' = 0
    /\ currentAudio' = 0
    /\ UNCHANGED <<rsMessages, rsEvents, rsPlays, rsClicks>>
    /\ UNCHANGED notRS

RSSteps ==
    \/ \E data \in MessageEvents : RSDeliver(data)
    \/ \E k \in 1..Len(rsMessages) : RSReplayClick(k)
    \/ HandleAudioEnded

(***************************************************************************)
(* SenderSession: the sending of audio.                                    *)
(***************************************************************************)
SSInit ==
    /\ ssProcessing = FALSE
    /\ ssStatusMessage = ""
    /\ ssWsConnected = FALSE
    /\ ssSelectedFile = FALSE
    /\ ssRecordedBlob = FALSE
    /\ ssReaders = <<>>
    /\ ssTimers = 0
    /\ ssSendsMade = 0
    /\ ssEvents = 0

\* the status text the 5 s timer of a send sets
Completed == "Audio processed and broadcast to receivers"

\* the event types of which handleWebSocketMessage changes processing or
\* wsConnected
SenderEventTypes == {"ws_connected", "ws_disconnected", "processing_started", "error"}

\* handleWebSocketMessage(data) of the sender page
SSHandleWebSocketMessage(type) ==
    /\ ssEvents < MaxSenderEvents
    /\ ssEvents' = ssEvents + 1
    /\ ssWsConnected' = IF type = "ws_connected" THEN TRUE
                        ELSE IF type = "ws_disconnected" THEN FALSE
                        ELSE ssWsConnected
    /\ ssProcessing' = IF type = "processing_started" THEN TRUE
                       ELSE IF type = "error" THEN FALSE
                       ELSE ssProcessing
    /\ ssStatusMessage' =
          IF type = "ws_connected" THEN "Connected to session"
          ELSE IF type = "ws_disconnected" THEN "Disconnected - reconnecting..."
          ELSE IF type = "processing_started" THEN "Processing audio..."
          ELSE "Error"
    /\ UNCHANGED <<ssSelectedFile, ssRecordedBlob, ssReaders, ssTimers,
                   ssSendsMade>>
    /\ UNCHANGED notSS

\* handleFileSelect(file) with a valid audio file
SSHandleFileSelect ==
    /\ ~ssSelectedFile
    /\ ssSelectedFile' = TRUE
    /\ UNCHANGED <<ssProcessing, ssStatusMessage, ssWsConnected, ssRecordedBlob,
                   ssReaders, ssTimers, ssSendsMade, ssEvents>>
    /\ UNCHANGED notSS

\* mediaRecorder.onstop: the recording is there
SSRecorderStop ==
    /\ ~ssRecordedBlob
    /\ ssRecordedBlob' = TRUE
    /\ UNCHANGED <<ssProcessing, ssStatusMessage, ssWsConnected, ssSelectedFile,
                   ssReaders, ssTimers, ssSendsMade, ssEvents>>
    /\ UNCHANGED notSS

\* handleSendAudio up to reader.readAsDataURL; its button is disabled when
\* !selectedFile || !wsConnected || processing
HandleSendAudio ==
    /\ ssSelectedFile /\ ssWsConnected /\ ~ssProcessing
    /\ ssSendsMade < MaxAudioSends
    /\ ssSendsMade' = ssSendsMade + 1
    /\ ssProcessing' = TRUE
    /\ ssStatusMessage' = "Uploading audio..."
    /\ ssReaders' = Append(ssReaders, "file")
    /\ UNCHANGED <<ssWsConnected, ssSelectedFile, ssRecordedBlob, ssTimers,
                   ssEvents>>
    /\ UNCHANGED notSS

\* sendRecording up to reader.readAsDataURL; its button is disabled when
\* !wsConnected || processing
SendRecording ==
    /\ ssRecordedBlob /\ ssWsConnected /\ ~ssProcessing
    /\ ssSendsMade < MaxAudioSends
    /\ ssSendsMade' = ssSendsMade + 1
    /\ ssProcessing' = TRUE
    /\ ssStatusMessage' = "Sending recording..."
    /\ ssReaders' = Append(ssReaders, "recording")
    /\ UNCHANGED <<ssWsConnected, ssSelectedFile, ssRecordedBlob, ssTimers,
                   ssEvents>>
    /\ UNCHANGED notSS

\* reader.onload of the oldest read: sendAudioFile, the status text, and the
\* 5 s timer
ReaderOnLoad ==
    /\ ssReaders # <<>>
    /\ ssReaders' = Tail(ssReaders)
    /\ IF Head(ssReaders) = "file"
       THEN /\ ssStatusMessage' = "Audio sent! Processing..."
            /\ ssSelectedFile' = FALSE
            /\ UNCHANGED ssRecordedBlob
       ELSE /\ ssStatusMessage' = "Recording sent! Processing..."
            /\ ssRecordedBlob' = FALSE
            /\ UNCHANGED ssSelectedFile
    /\ ssTimers' = ssTimers + 1
    /\ UNCHANGED <<ssProcessing, ssWsConnected, ssSendsMade, ssEvents>>
    /\ UNCHANGED notSS

\* the callback of the 5 s timer set by reader.onload
SendTimerFires ==
    /\ ssTimers > 0
    /\ ssTimers' = ssTimers - 1
    /\ ssProcessing' = FALSE
    /\ ssStatusMessage' = Completed
    /\ UNCHANGED <<ssWsConnected, ssSelectedFile, ssRecordedBlob, ssReaders,
                   ssSendsMade, ssEvents>>
    /\ UNCHANGED notSS

SSSteps ==
    \/ \E type \in SenderEventTypes : SSHandleWebSocketMessage(type)
    \/ SSHandleFileSelect
    \/ SSRecorderStop
    \/ HandleSendAudio
    \/ SendRecording
    \/ ReaderOnLoad
    \/ SendTimerFires

(***************************************************************************)
(* Specifications.                                                         *)
(***************************************************************************)
vars == <<aqVars, wsVars, fuVars, lrVars, rsVars, ssVars>>

Init == AQInit /\ WSInit /\ FUInit /\ LRInit /\ RSInit /\ SSInit

\* AudioQueue driven by init() and enqueue() only
AQNext == AQSteps

\* AudioQueue driven by init(), enqueue() and clear()
AQClearNext == AQSteps \/ Clear

AQLiveNext == AQLiveSteps

\* clear() called while no init() or enqueue() invocation is in flight
QuietClear == calls = {} /\ Clear

\* AudioQueue driven by init() and enqueue(), with clear() called between
\* invocations: every segment that is started after a clear() comes from
\* an enqueue() called after it
AQQuietClearNext == AQSteps \/ QuietClear

WSNext == WSSteps

WSMsgNext == WSMsgSteps

WSSendNext == WSSendSteps

\* an AudioQueue with clear(), or a SessionWebSocket driven by its owner:
\* the two objects share no state, and a behaviour drives one of them while
\* the other is as constructed
CancelNext ==
    \/ WSInit /\ AQCancelSteps
    \/ AQInit /\ WSNext

FUNext == FUSteps

FUFileNext == FUFileSteps

FUPollNext == FUPollSteps

FUJobNext == FUJobSteps

LRNext == LRSteps

RSNext == RSSteps

SSNext == SSSteps

SpecAQ == Init /\ [][AQNext]_vars

SpecAQClear == Init /\ [][AQClearNext]_vars

\* the clock of a running context advances, resume() resolves, and the
\* ended event of a source that has played out is dispatched
AQLiveFairness ==
    /\ WF_vars(Tick)
    /\ WF_vars(Resumes)
    /\ WF_vars(EndedEvents)

SpecAQLive == Init /\ [][AQLiveNext]_vars /\ AQLiveFairness

SpecAQQuietClear == Init /\ [][AQQuietClearNext]_vars

SpecWS == Init /\ [][WSNext]_vars

SpecWSMsg == Init /\ [][WSMsgNext]_vars

SpecWSSend == Init /\ [][WSSendNext]_vars

SpecCancel == Init /\ [][CancelNext]_vars

SpecFU == Init /\ [][FUNext]_vars

SpecFUFiles == Init /\ [][FUFileNext]_vars

SpecFUPoll == Init /\ [][FUPollNext]_vars

\* a running interval keeps ticking (setInterval, every 2 s), every status
\* request is answered, and pollStatus resumes with every answer
FUJobFairness ==
    /\ WF_vars(PollTicks)
    /\ WF_vars(ServerAnswersSome)
    /\ WF_vars(PollResponses)

SpecFUJob == Init /\ [][FUJobNext]_vars /\ FUJobFairness

SpecLR == Init /\ [][LRNext]_vars

SpecRS == Init /\ [][RSNext]_vars

SpecSS == Init /\ [][SSNext]_vars

(***************************************************************************)
(* Claims about AudioQueue (SpecAQ: init() and enqueue() only;             *)
(* SpecAQClear: with clear()).                                             *)
(***************************************************************************)

\* C1: over runs made of enqueue calls only (clear() is never called), each
\* segment started by playNext starts no earlier than the start time of the
\* previously started segment plus that segment's duration.
C1_NoOverlap ==
    \A i \in 1..(Len(sources) - 1) :
        sources[i + 1].startTime >= sources[i].startTime + sources[i].duration

\* a second segment has been started after the device clock moved on
C1_Witness ==
    /\ Len(sources) >= 2
    /\ sources[2].startTime > 0

\* C2: when segment N+1 was pushed onto the queue before segment N finished
\* playing, segment N+1 starts exactly at segment N's start time plus segment
\* N's duration, whatever the device clock is when N's onended handler runs.
C2_ZeroGap ==
    \A i \in 1..(Len(sources) - 1) :
        sources[i + 1].pushedAt < sources[i].startTime + sources[i].duration
            => sources[i + 1].startTime = sources[i].startTime + sources[i].duration

\* C3: right after clear() the queue is empty, isPlaying is false,
\* nextStartTime is 0, and no source node created before the call is still
\* playing or still due to play.
C3_ClearSilences ==
    justCleared =>
        /\ Len(queue) = 0
        /\ isPlaying = FALSE
        /\ nextStartTime = 0
        /\ \A s \in 1..Len(sources) : ~Live(sources[s])

\* C12: segments are played in the order of their enqueue calls: of two
\* segments that both decoded, the one whose enqueue() was called first is
\* started first, whatever the order in which the reads and decodes finish.
C12_PlayedInCallOrder ==
    \A i, j \in 1..Len(sources) :
        i < j => sources[i].buffer < sources[j].buffer

\* the step is enqueue() giving up the segment of call c: its decode failed,
\* or its input is neither a Blob nor an ArrayBuffer
Drops(c) ==
    \/ DecodeFail(c)
    \/ c.op = "enqueue" /\ c.kind = "Invalid" /\ AfterInit(c)

\* C15: an enqueue() whose decode fails, or whose input is neither a Blob
\* nor an ArrayBuffer, drops its own segment only: queue, isPlaying,
\* nextStartTime, the current source and the started sources are unchanged,
\* every other enqueue() in flight stays in flight, and the promise of the
\* call is not rejected.
C15_DropsOnlyThatSegment ==
    [][\A c \in calls :
          Drops(c) =>
              /\ UNCHANGED <<queue, isPlaying, nextStartTime, currentSource,
                             sources, audioContext>>
              /\ calls' = calls \ {c}
              /\ ~enqueueRejected']_vars

\* a segment was just dropped while an earlier one is playing and a later
\* enqueue() is in flight
C15_Witness ==
    /\ justDropped
    /\ ~enqueueRejected
    /\ isPlaying
    /\ currentSource # 0
    /\ Live(sources[currentSource])
    /\ \E c \in calls : c.op = "enqueue" /\ c.kind # "Invalid"

\* C18: one AudioQueue creates at most one audio context, however init()
\* and enqueue() calls interleave, and no step of an init() call changes
\* queue, isPlaying or nextStartTime.
C18_InitIdempotent ==
    /\ [](contextsCreated <= 1)
    /\ [][(\/ InitCall
           \/ \E c \in calls : c.op = "init" /\ (ResumeDone(c) \/ AfterInit(c)))
             => UNCHANGED <<queue, isPlaying, nextStartTime>>]_vars

\* init() was called again while a segment is playing, with one context
C18_Witness ==
    /\ contextsCreated = 1
    /\ isPlaying
    /\ nextStartTime > 0
    /\ \E c \in calls : c.op = "init" /\ c.id > 1

\* C24: with A (1.0 s, two clock units) handed to enqueue() first and B
\* (0.5 s, one unit) right after it, both decoded at device clock 0, A is
\* started at 0 and B at 1.0 s (two units), for a span of 1.5 s.
C24_ScenarioAB ==
    \A a, b \in 1..Len(sources) :
        (/\ sources[a].buffer = 1 /\ sources[a].duration = 2
         /\ sources[b].buffer = 2 /\ sources[b].duration = 1
         /\ sources[a].pushedAt = 0 /\ sources[b].pushedAt = 0)
            => /\ sources[a].startTime = 0
               /\ sources[b].startTime = 2

\* C25: when the ended event of a source finds the queue empty the
\* scheduler becomes idle (isPlaying false, nextStartTime 0), and a segment
\* that is started while the scheduler is idle starts at the device clock of
\* that moment.
C25_IdleThenStartsNow ==
    [][/\ (/\ queue = <<>>
           /\ \E s \in 1..Len(sources) : ~sources[s].ended /\ sources'[s].ended)
            => (~isPlaying' /\ nextStartTime' = 0)
       /\ (~isPlaying /\ Len(sources') = Len(sources) + 1)
            => sources'[Len(sources')].startTime = currentTime]_vars

\* the first segment played out, the scheduler went idle, and a segment
\* decoded later was started at the clock of its arrival, past the end of
\* the first
C25_Witness ==
    /\ Len(sources) >= 2
    /\ sources[1].ended
    /\ sources[2].pushedAt = sources[2].startTime
    /\ sources[2].startTime > sources[1].startTime + sources[1].duration

\* no decoded segment is started twice
StartedAtMostOnce ==
    \A a, b \in 1..Len(sources) : sources[a].buffer = sources[b].buffer => a = b

\* every source started so far has fired its ended event
AllSourcesEnded == \A s \in 1..Len(sources) : sources[s].ended

\* every source that is started fires its ended event: sources are started
\* one after the other and an ended source stays ended, so time and again
\* all the sources started so far have ended
EverySourceEnds == []<>AllSourcesEnded

\* the segment decoded by invocation id is in the queue
Queued(id) == \E k \in 1..Len(queue) : queue[k].id = id

\* the segment decoded by invocation id has been started
Started(id) == \E s \in 1..Len(sources) : sources[s].buffer = id

\* C26 (SpecAQLive): a decoded segment is started at most once; and when
\* every started source fires its ended event, every decoded segment is
\* eventually started and the scheduler returns to idle with an empty queue.
C26_ConsumedOnce ==
    /\ []StartedAtMostOnce
    /\ EverySourceEnds
          => /\ \A id \in 1..MaxCalls : Queued(id) ~> Started(id)
             /\ isPlaying ~> (~isPlaying /\ queue = <<>>)

\* two segments were decoded at clock 0, the second waited in the queue
\* for the first to end, both have played, and the scheduler is idle
C26_Witness ==
    /\ Len(sources) = 2
    /\ sources[1].ended /\ sources[2].ended
    /\ sources[2].pushedAt < sources[2].startTime
    /\ ~isPlaying
    /\ queue = <<>>
    /\ calls = {}

\* the source nodes a and b are scheduled to sound at the same time
Overlap(a, b) ==
    /\ a.startTime < EndTime(a)
    /\ b.startTime < EndTime(b)
    /\ a.startTime < EndTime(b)
    /\ b.startTime < EndTime(a)

\* C31 (SpecAQQuietClear): with clear() in the sequence too, no two
\* segments sound at the same time: the ended event of a source that
\* clear() stopped never lets a segment enqueued after the clear() start
\* while another such segment is still playing.
C31_NoOverlapWithClear ==
    \A i, j \in 1..Len(sources) : i # j => ~Overlap(sources[i], sources[j])

\* C32 (SpecAQClear): an enqueue() that is awaiting init, read or decode
\* when clear() is called never pushes or plays its segment after the
\* clear().  Right after clear() the queue is empty and every invocation in
\* flight was in flight when clear() was called, so the step that follows
\* pushes nothing and starts nothing.
C32_ClearCancelsInFlight ==
    [][justCleared => (queue' = <<>> /\ sources' = sources)]_vars

(***************************************************************************)
(* Claim about clear() and disconnect() (SpecCancel).                      *)
(***************************************************************************)

\* C19: neither disconnect() nor clear() ever ends with an exception,
\* whatever the state it is called in: before connect() or init(), twice in
\* a row, with a reconnect timer pending, with a current source that has
\* already been stopped or has ended.
C19_CancelNeverThrows ==
    /\ ~clearThrew
    /\ ~disconnectThrew

\* clear() has just returned normally after stopping a current source that
\* had played to its end
C19_Witness ==
    /\ justCleared
    /\ ~clearThrew
    /\ \E k \in 1..Len(sources) :
          /\ sources[k].stopped
          /\ sources[k].stopTime >= sources[k].startTime + sources[k].duration

(***************************************************************************)
(* Claims about SessionWebSocket (SpecWS: connecting, reconnecting and     *)
(* disconnecting; SpecWSSend: with sendAudioFile and requestHistory).      *)
(***************************************************************************)

\* no socket of the instance is open
NoOpenSocket == \A i \in 1..Len(socks) : socks[i] # "OPEN"

\* C4: once disconnect() has been called, and until the owner calls
\* connect() again, no socket of the instance is open, no reconnect timer is
\* scheduled and no new socket is created (by a pending timer or otherwise).
C4_DisconnectIsFinal ==
    [][userDisconnected' =>
          /\ NoOpenSocket'
          /\ userDisconnected => /\ timers' <= timers
                                 /\ Len(socks') = Len(socks)]_vars

\* C5: reconnectAttempts stays within 0..maxReconnectAttempts, and no more
\* than maxReconnectAttempts reconnects are scheduled between two opens.
C5_AttemptsBounded ==
    /\ reconnectAttempts \in 0..maxReconnectAttempts
    /\ scheduledSinceOpen <= maxReconnectAttempts

\* five reconnects were scheduled, the sixth socket closed too, and nothing
\* more is scheduled
C5_Witness ==
    /\ reconnectAttempts = maxReconnectAttempts
    /\ scheduledSinceOpen = maxReconnectAttempts
    /\ terminalCount = 1
    /\ timers = 0
    /\ LiveSockets = {}

\* C6: when the reconnection attempts are exhausted exactly one terminal
\* disconnect event reaches onMessage, and it differs from every disconnect
\* event delivered by a close that is followed by a reconnection attempt.
C6_TerminalEventDistinct ==
    /\ terminalCount <= 1
    /\ retryEvents \cap termEvents = {}

\* C9 (SpecWSSend): a sendAudioFile or requestHistory call made while the
\* socket is not open signals a not-connected error to its caller.
C9_SendSignalsNotConnected ==
    (lastSend.op # "none" /\ ~lastSend.transmitted)
        => lastSend.outcome = "not_connected_error"

\* C10: connect() does not create a second socket while one is being
\* established: at most one socket of the instance is connecting or open.
C10_OneLiveSocket == Cardinality(LiveSockets) <= 1

\* the step runs ws.onopen, ws.onclose, ws.onerror or the try block of
\* ws.onmessage to its end: each of them calls this.onMessage
OnMessageInvoked ==
    \/ handled' # handled
    \/ \E i \in 1..Len(socks) :
          socks'[i] # socks[i] /\ socks'[i] \in {"OPEN", "CLOSED"}

\* C33: once disconnect() has been called, and until the owner calls
\* connect() again, the instance does not invoke the onMessage handler.
C33_SilentAfterDisconnect ==
    [][(userDisconnected /\ userDisconnected') => ~OnMessageInvoked]_vars

\* C27: disconnect() resets the attempt counter: once disconnect() has been
\* called and the close event of the socket it closed has been handled (no
\* socket is left closing), reconnectAttempts is 0.
C27_DisconnectResetsAttempts ==
    (userDisconnected /\ ws = 0 /\ \A i \in 1..Len(socks) : socks[i] # "CLOSING")
        => reconnectAttempts = 0

\* C28: reconnectAttempts is lowered only by a socket reaching open, which
\* sets it to zero; a step that creates a socket (a reconnect timer firing,
\* a connect() call) leaves it as it is, and every other change adds one.
C28_ResetOnlyAtOpen ==
    [][/\ reconnectAttempts' < reconnectAttempts
            => /\ reconnectAttempts' = 0
               /\ \E i \in 1..Len(socks) :
                      socks[i] = "CONNECTING" /\ socks'[i] = "OPEN"
       /\ reconnectAttempts' > reconnectAttempts
            => reconnectAttempts' = reconnectAttempts + 1
       /\ Len(socks') > Len(socks)
            => reconnectAttempts' = reconnectAttempts]_vars

\* two sockets in a row closed without opening, both reconnect timers have
\* fired, and the counter stands at two
C28_Witness ==
    /\ connectCalls = 1
    /\ Len(socks) = 3
    /\ socks[1] = "CLOSED" /\ socks[2] = "CLOSED" /\ socks[3] = "CONNECTING"
    /\ timers = 0
    /\ scheduledSinceOpen = 2
    /\ reconnectAttempts = 2

\* C29 (SpecWSSend): outbound messages are never replayed: a frame is written only by a
\* send call, at most one per call, on the socket that is current and open
\* when the call is made; a step that is not a send call (a socket opening,
\* a reconnect) writes nothing, and what was written is never written again.
C29_NoReplay ==
    [][/\ Len(outbox') <= Len(outbox) + 1
       /\ SubSeq(outbox', 1, Len(outbox)) = outbox
       /\ sendsMade' = sendsMade => outbox' = outbox
       /\ outbox' # outbox
            => /\ sendsMade' = sendsMade + 1
               /\ ws # 0 /\ socks[ws] = "OPEN"
               /\ outbox'[Len(outbox')] = [op |-> lastSend'.op, sock |-> ws]]_vars

\* a send call was made while no socket was open, a socket created by a
\* later reconnect is open now, and nothing has been written
C29_Witness ==
    /\ sendsMade >= 1
    /\ ~lastSend.transmitted
    /\ outbox = <<>>
    /\ \E i \in 2..Len(socks) : socks[i] = "OPEN" /\ ws = i

(***************************************************************************)
(* Claims about the message and error events of SessionWebSocket           *)
(* (SpecWSMsg).                                                            *)
(***************************************************************************)

\* what the handler of onMessage has been given for inbound frames, in order
FrameDeliveries ==
    LET fromFrames == SelectSeq(handled, LAMBDA h : h.src = "frame")
    IN [k \in 1..Len(fromFrames) |-> fromFrames[k].data]

\* the frame is a binary frame or a text frame that holds a JSON text
Deliverable(f) == f.kind = "binary" \/ JsonParse(f.data).ok

\* what the handler is to be given for a deliverable frame: the decoded
\* event of a text frame, the raw bytes of a binary frame
ExpectedDelivery(f) ==
    IF f.kind = "binary" THEN [raw |-> f.data] ELSE JsonParse(f.data).value

\* what the handler is to be given for the frames that arrived, in order
ExpectedDeliveries ==
    LET deliverable == SelectSeq(inbound, Deliverable)
    IN [k \in 1..Len(deliverable) |-> ExpectedDelivery(deliverable[k])]

\* C11: the handler registered with SessionWebSocket is invoked exactly once
\* for every inbound frame, in arrival order: with the decoded event for a
\* text frame and with the raw bytes for a binary frame.
C11_EveryFrameDelivered == FrameDeliveries = ExpectedDeliveries

\* the text frame is a protocol error: no JSON text, or an unknown type
ProtocolError(f) ==
    /\ f.kind = "text"
    /\ \/ ~JsonParse(f.data).ok
       \/ JsonParse(f.data).value.type \notin KnownTypes

\* C16: a malformed or unknown-type inbound frame is logged and ignored: the
\* step that handles it closes no socket, schedules no reconnect and leaves
\* reconnectAttempts alone, and a well-formed frame that arrives on an open
\* socket, after it or at any other time, is handed to the handler.
C16_ProtocolErrorsIgnored ==
    [][\A i \in 1..Len(socks), f \in Frames :
          OnMessage(i, f) =>
              /\ ProtocolError(f) =>
                    /\ socks' = socks
                    /\ ws' = ws
                    /\ timers' = timers
                    /\ reconnectAttempts' = reconnectAttempts
                    /\ \/ handled' = handled
                       \/ /\ Len(handled') = Len(handled) + 1
                          /\ handled'[Len(handled')].res = "logged"
              /\ (f.kind = "text" /\ ~ProtocolError(f)) =>
                    /\ Len(handled') = Len(handled) + 1
                    /\ handled'[Len(handled')].data = JsonParse(f.data).value
                    /\ handled'[Len(handled')].res = "handled"]_vars

\* a malformed frame arrived, the frame after it was handed to the handler,
\* and the socket is still open with no reconnect scheduled
C16_Witness ==
    /\ Len(inbound) = 2
    /\ inbound[1] = [kind |-> "text", data |-> MalformedText]
    /\ inbound[2] = [kind |-> "text", data |-> KnownText]
    /\ Len(handled) = 1
    /\ handled[1].data = [type |-> "processing_started"]
    /\ IsOpen
    /\ timers = 0
    /\ reconnectAttempts = 0

\* C17: an error event of a socket hands a typed error event to the handler
\* and changes nothing else: no socket changes its readyState, no reconnect
\* is scheduled, reconnectAttempts keeps its value; a reconnect is scheduled,
\* reconnectAttempts is raised and a socket is closed by a close event only.
C17_ErrorEventOnly ==
    [][/\ \A i \in 1..Len(socks) :
             OnError(i) =>
                 /\ Len(handled') = Len(handled) + 1
                 /\ handled'[Len(handled')].src = "transport"
                 /\ handled'[Len(handled')].data.type = "error"
                 /\ UNCHANGED <<socks, ws, timers, reconnectAttempts, inbound>>
       /\ (\/ timers' > timers
           \/ reconnectAttempts' > reconnectAttempts
           \/ \E i \in 1..Len(socks) : socks[i] # "CLOSED" /\ socks'[i] = "CLOSED")
              => \E i \in 1..Len(socks), code \in CloseCodes : OnClose(i, code)]_vars

\* an error event was handed to the handler while its socket stayed open
\* and nothing was scheduled
C17_Witness ==
    /\ \E k \in 1..Len(handled) : handled[k].src = "transport"
    /\ IsOpen
    /\ Cardinality(LiveSockets) = 1
    /\ timers = 0
    /\ reconnectAttempts = 0

(***************************************************************************)
(* Claims about FileUpload (SpecFU: with polling; SpecFUFiles: every file  *)
(* of Files offered, before the first poll; SpecFUPoll: with polling, only *)
(* a file that passes validation offered).                                 *)
(***************************************************************************)

\* C7: for one job a terminal outcome is reported at most once, and once it
\* has been reported no status request is issued for the job and no response
\* that arrives later changes what the component shows.
C7_TerminalReportedOnce ==
    /\ \A j \in 1..Len(reports) : reports[j] <= 1
    /\ ~lateRequest
    /\ ~lateChange

\* C13: the state reported for a job is monotonic: a job that the component
\* has reported as succeeded is never reported as failed, a job it has
\* reported as failed is never reported as succeeded, and neither goes back
\* to processing, so each job has at most one terminal state reported.
C13_VerdictsMonotonic ==
    \A j \in 1..Len(verdicts) : Cardinality(verdicts[j]) <= 1

\* C14: a non-terminal status response, whatever its progress is against
\* the progress shown (equal, higher, lower), leaves the polling interval
\* running and does not put the component into the error state; the
\* response of a succeeded job stops the polling of that job and reports
\* success.
C14_NonTerminalKeepsPolling ==
    [][\A i \in 1..Len(requests) :
          PollResponse(i) =>
              LET data == requests[i].resp
                  job == requests[i].job
              IN /\ data \in Responses("Running") =>
                       /\ activeIntervals' = activeIntervals
                       /\ status' = status
                       /\ error' = error
                       /\ processing' = processing
                 /\ data \in Responses("Succeeded") =>
                       /\ job \notin activeIntervals'
                       /\ status' = "success"
                       /\ ~processing']_vars

\* the one job answered Running 40, Running 40, Succeeded: the repeated 40
\* was no error, success is shown and no interval is left
C14_Witness ==
    /\ Len(jobState) = 1
    /\ requestsMade = 3
    /\ repeatedProgress = 40
    /\ status = "success"
    /\ error = ""
    /\ result = 1
    /\ verdicts[1] = {"success"}
    /\ activeIntervals = {}

\* the files the upload constraints admit: the extension after the last '.'
\* is, in any letter case, one of mp3, wav, m4a, ogg, flac, webm, and the size
\* is at most 25 MiB
ExpectedAccepted == [name : GoodNames, size : {0, 25 * 1024 * 1024}]

\* C8: only a file with an allowed extension and a size of at most 25 MiB is
\* ever the selected file or the body of the upload POST, and selecting such
\* a file (one of exactly 25 MiB included) makes it the selected file.
C8_UploadValidation ==
    /\ [](/\ file \in ExpectedAccepted \cup {NoFile}
         /\ post \in ExpectedAccepted \cup {NoFile})
    /\ [][\A f \in Files :
             HandleFileSelect(f) => (file' = f <=> f \in ExpectedAccepted)]_vars

\* a file of exactly 25 MiB was accepted and posted, and a later selection
\* was rejected for its size
C8_Witness ==
    /\ uploadsMade >= 1
    /\ post # NoFile
    /\ post.size = MAX_FILE_SIZE
    /\ file = NoFile
    /\ error = "File size exceeds 25MB limit"

\* C22: a server-reported failure of job j is terminal: the step that
\* reports it stops polling and processing, shows the server's message when
\* the response carries one, and issues no upload and no status request;
\* and no status request is issued for job j after that.
C22_FailureIsTerminal ==
    [][\A j \in 1..Len(reports) :
          /\ (reports'[j] = reports[j] + 1 /\ status' = "error")
                => /\ j \notin activeIntervals'
                   /\ ~processing'
                   /\ \E i \in 1..Len(requests) :
                          /\ requests[i].job = j
                          /\ requests[i].resp # Pending
                          /\ IsFailed(requests[i].resp)
                          /\ requests' = RemoveAt(requests, i)
                          /\ error' = IF requests[i].resp.error # ""
                                      THEN requests[i].resp.error
                                      ELSE "Processing failed"
                   /\ post' = post /\ uploadsMade' = uploadsMade
                   /\ requestsMade' = requestsMade
          /\ ("error" \in verdicts[j] /\ reports[j] > 0)
                => /\ j \notin activeIntervals'
                   /\ requestsMade' > requestsMade
                         => requests'[Len(requests')].job # j]_vars

\* the failure of the first job was reported with the message of the server
C22_Witness ==
    /\ Len(reports) >= 1
    /\ reports[1] = 1
    /\ verdicts[1] = {"error"}
    /\ status = "error"
    /\ error = "Decoding failed"
    /\ ~processing
    /\ activeIntervals = {}

\* C30 (SpecFUJob): once the server has a terminal state for job j while
\* the interval of j is running and can issue a further status request,
\* the polling of j eventually stops and processing becomes false.
C30_PollingEnds ==
    \A j \in 1..MaxUploads :
        (/\ j \in activeIntervals
         /\ jobState[j] \in {"Succeeded", "Failed"}
         /\ requestsMade < MaxRequests)
            ~> (j \notin activeIntervals /\ ~processing)

\* the job succeeded while two status requests had been made, a later request
\* brought the answer, and the polling has stopped
C30_Witness ==
    /\ Len(jobState) >= 1
    /\ jobState[1] = "Succeeded"
    /\ requestsMade = MaxRequests
    /\ reports[1] = 1
    /\ result = 1
    /\ activeIntervals = {}
    /\ ~processing
    /\ requests = <<>>

\* C34 (SpecFUPoll): at most one status request is outstanding at any time.
C34_OneRequestOutstanding == Len(requests) <= 1

\* the component is as handleReset left it and no file was selected since
InReset ==
    /\ file = NoFile
    /\ result = 0
    /\ status = "idle"
    /\ progress = 0
    /\ error = ""

\* C35 (SpecFUPoll): while the component is in its reset state, the handling
\* of a status response or of a failed status request leaves it there.
C35_ResetIsStable ==
    [][(/\ InReset
        /\ \E i \in 1..Len(requests) : requests' = RemoveAt(requests, i))
          => InReset']_vars

\* C36 (SpecFUPoll): a failed status request of job j is terminal: the step
\* that handles it leaves the interval of j cleared, processing false and
\* the status "error", and issues no request; and once a status request of
\* j has failed, the interval of j is not running and no status request is
\* issued for j, whatever the state of the job on the server.
C36_RequestFailureIsTerminal ==
    [][\A j \in 1..Len(requestFailures) :
          /\ requestFailures'[j] = requestFailures[j] + 1
                => /\ j \notin activeIntervals'
                   /\ ~processing'
                   /\ status' = "error"
                   /\ requestsMade' = requestsMade
          /\ requestFailures[j] > 0
                => /\ j \notin activeIntervals
                   /\ j \notin activeIntervals'
                   /\ requestsMade' > requestsMade
                         => requests'[Len(requests')].job # j]_vars

\* a status request of the first job failed while the job was running, the
\* job then succeeded on the server, and the component still shows the error
C36_Witness ==
    /\ Len(requestFailures) >= 1
    /\ requestFailures[1] = 1
    /\ jobState[1] = "Succeeded"
    /\ reports[1] = 0
    /\ 1 \notin activeIntervals
    /\ ~processing
    /\ status = "error"
    /\ error = "Failed to check processing status"

(***************************************************************************)
(* Claims about LiveRecording (SpecLR).                                    *)
(***************************************************************************)

\* C20: an audio chunk is sent on a translate socket only after a handshake
\* acknowledgement (configured or connection_established) has been received
\* on that socket.
C20_ChunksAfterHandshake ==
    \A k \in 1..Len(translate) :
        \A n \in 1..Len(translate[k].sent) :
            translate[k].sent[n].frame = "chunk" => translate[k].sent[n].acked

\* C38: every translate socket that is connecting or open is the one
\* websocketRef holds, so there is at most one and handleStop closes it.
C38_OneTrackedSocket ==
    \A k \in 1..Len(translate) :
        translate[k].state \in {"CONNECTING", "OPEN"} => websocketRef = k

\* C40: the first frame sent on a translate socket is its configure frame,
\* and no other frame of the socket is a configure frame.
C40_ConfigureFirst ==
    \A k \in 1..Len(translate) :
        \A n \in 1..Len(translate[k].sent) :
            (translate[k].sent[n].frame = "configure") <=> (n = 1)

\* a translate socket carried its configure frame and then an audio chunk
C40_Witness ==
    \E k \in 1..Len(translate) :
        /\ Len(translate[k].sent) >= 2
        /\ translate[k].sent[1].frame = "configure"
        /\ translate[k].sent[2].frame = "chunk"

(***************************************************************************)
(* Claims about ReceiverSession (SpecRS) and SenderSession (SpecSS).       *)
(***************************************************************************)

\* the play() calls made by the handler of event number n
AutoPlaysOf(n) == {k \in 1..Len(rsPlays) : rsPlays[k].event = n}

\* C21: the handler of a delivered new_message event starts playback at
\* most once, and of the audio of that message; the handler of a
\* history_message event starts none.
C21_AutoplayOncePerDelivery ==
    \A n \in 1..Len(rsEvents) :
        /\ Cardinality(AutoPlaysOf(n)) <= 1
        /\ \A k \in AutoPlaysOf(n) : rsPlays[k].message = rsEvents[n].message_id
        /\ rsEvents[n].type = "history_message" => AutoPlaysOf(n) = {}

\* a new_message with audio was delivered and played once, and a
\* history_message that carries audio was delivered after it and not played
C21_Witness ==
    /\ Len(rsEvents) >= 2
    /\ rsEvents[1].type = "new_message" /\ rsEvents[1].audio = "base64"
    /\ rsEvents[2].type = "history_message" /\ rsEvents[2].audio = "base64"
    /\ Cardinality(AutoPlaysOf(1)) = 1
    /\ AutoPlaysOf(2) = {}

\* C37 (SpecRS): no two entries of the message list have the same id.
C37_UniqueMessageIds ==
    \A i, j \in 1..Len(rsMessages) :
        i # j => rsMessages[i].id # rsMessages[j].id

\* C23: after an audio send, processing is cleared and completion is
\* reported only by the handling of an event delivered over the socket,
\* never by a timer of the page.
C23_ClearedByServerEventOnly ==
    [][(\/ ssProcessing /\ ~ssProcessing'
        \/ ssStatusMessage # Completed /\ ssStatusMessage' = Completed)
          => ssEvents' = ssEvents + 1]_vars

\* C39 (SpecSS): while the status shows the error the server delivered for
\* a send, no step replaces it by the completed text.
C39_ErrorIsNotOverwritten ==
    [][ssStatusMessage = "Error" => ssStatusMessage' # Completed]_vars

====
